---- MODULE Spec2Model ----
(***************************************************************************)
(* A model of terminal-mcp: the TerminalManager that owns the single       *)
(* TerminalSession, the SandboxController released by disposeAsync, and    *)
(* the recording subsystem fed by the session's output.                    *)
(*                                                                         *)
(* Node runs one thread.  A handler runs to its first await; what follows  *)
(* an await is a microtask.  Callbacks of the outside world (PTY data, PTY *)
(* exit, the end of a sandbox reset, the settling of a session spawn, a    *)
(* timer) are macrotasks and run only when no microtask is queued.         *)
(***************************************************************************)
EXTENDS Integers, Sequences, FiniteSets, TLC

\* ---------------------------------------------------------------- bounds
NumCallers == 2         \* tasks that ask the manager for a session
MaxSessions == 2        \* TerminalSession.create calls in one run
MaxInitCalls == 2       \* initSession calls in one run
MaxEvents == 2          \* output events the child processes emit in one run
MaxWrites == 1          \* accepted write() calls per session
MaxRecordings == 2      \* recorders created in one run
MaxDisposeAsync == 2    \* disposeAsync calls in flight at once
MaxResizes == 1         \* accepted resize() calls in one run
MaxTime == 4            \* seconds of wall-clock time in one run
MaxRequests == 2        \* sendRequest calls of the proxy client in one run
MaxToolCalls == 3       \* CallTool requests the tool server handles in one run
MaxResponses == 3       \* response lines the proxy client receives in one run
MaxStream == 5          \* bytes the peer writes onto the socket in one run
InactivityTimeout == 3  \* the inactivityTimeout option of every recording, in seconds
MaxDuration == 4        \* the maxDuration option of every recording, in seconds

Callers == 1..NumCallers
SessionIds == 1..MaxSessions
RecIds == 1..MaxRecordings
RequestIds == 1..MaxRequests
ExitCodes == {0, 1}
ColsChoices == {80, 120}

\* manager.ts:132 - the dimensions startAutoRecording falls back to
DefaultCols == 120

\* manager.ts:39 and 127 - idleTimeLimit: options.idleTimeLimit ?? 2, in seconds
ConnectionLostExit == 1  \* client.ts:81, 86 - process.exit(1)
IdleTimeLimit == 2

\* a rejected promise, as the value an await of it produces (session ids are 1, 2, ...)
Rejected == 0 - 1

\* no exit code yet
NoCode == 0 - 1

Ops == {"write", "resize", "getContent", "getVisibleContent",
        "takeScreenshot", "clear", "getDimensions"}

RecordingModes == {"always", "on-failure", "off"}
RecordOptions == {"unset"} \cup RecordingModes

VARIABLES
  \* TerminalManager (manager.ts:25-30)
  session,          \* this.session: 0 is null, else a session id
  sessionPromise,   \* this.sessionPromise: 0 is null, else the id of the construction
  autoRecordingId,  \* this.autoRecordingId: 0 is null, else a recorder id
  record,           \* this.options.record
  \* TerminalSession.create calls and the sessions they produce
  nextId,           \* how many constructions were started
  promiseState,     \* per construction: "none", "pending", "fulfilled", "rejected"
  waiters,          \* per construction: the callers awaiting it, in the order they awaited
  disposed,         \* per session: this.disposed
  exited,           \* per session: the child process has ended
  killCount,        \* per session: calls of ptyProcess.kill()
  dataListeners,    \* per session: this.dataListeners
  exitListeners,    \* per session: this.exitListeners
  exitArgs,         \* per session: the codes its exit listeners were called with, one
                    \* entry for each call
  cols,             \* per session: terminal.cols
  ptyInput,         \* per session: writes handed to the child
  \* the event loop and the tasks that call the manager
  microtasks,       \* queued continuations (caller ids), head runs next
  pc, kind, val, result, joined, callDisposed,
  initCalls,
  \* SandboxController (controller.ts:20-21) and the disposeAsync calls in flight
  hasController, initialized, resetCount,
  daWait,           \* disposeAsync calls suspended on SandboxManager.reset()
  daReady,          \* disposeAsync calls about to complete
  \* the child processes' output
  emitted,          \* output events emitted so far
  lost,             \* output events that reached no recording listener
  stdoutLog,        \* the output events written to stdout by the passthrough, in order
  \* the recording subsystem
  recorders, nextRec,
  \* the owning process (index.ts startInteractiveMode)
  proc,             \* "running", "finalizing" (the exit handler awaits), "exited"
  mainState,        \* startInteractiveMode: "none", "starting", "hooked"
  procCode,         \* the code the exit handler was called with (index.ts:398)
  term,             \* the SIGTERM handler (index.ts:467-469): "none", "wait", "ready", "done"
  exitStatus,       \* the status the process exited with (NoCode while it runs)
  resizes,
  now,              \* the wall clock, in seconds
  returned,         \* the last manager.finalizeRecordings call: its code and its result
  \* the proxy client (client.ts startMcpClientMode)
  requestId,        \* let requestId
  pendingRequests,  \* the keys of the pendingRequests map
  future,           \* per request id: the promise sendRequest returned
  writeCb,          \* per request id: the socket.write callback ("none", "queued",
                    \* "done", "failed")
  responses,        \* the lines the data handler has taken from the socket, in
                    \* arrival order
  clientExit,       \* the exit code of the proxy client process, NoCode while it runs
  rx,               \* the client's end of the socket: the bytes the peer has written
                    \* (sent), how many of them were delivered (got), and the data
                    \* handler's buffer of decoded text
  startup,          \* main() of a process: where it is (pc), the mode it runs in, the
                    \* roles it has taken, why its connection failed (cause), what
                    \* it reported (message) and its exit code
  toolReplies,      \* what the CallTool handler of the tool server made of each
                    \* request, in the order the requests came
  \* what the last step was, when it was a disposal or a call of the command surface:
  \* "dispose"; "daCall" (a disposeAsync call, suspended); "daDone" (a disposeAsync ran
  \* from its call to its completion with no other call in between); "disposeAgain"
  \* and "daCallAgain" (the same call made again right after one that completed);
  \* the outcome of a command ("ok" or the error thrown); "" after any other step
  last

vars == <<session, sessionPromise, autoRecordingId, record, nextId, promiseState,
          waiters, disposed, exited, killCount, dataListeners, exitListeners, exitArgs,
          cols, ptyInput, microtasks, pc, kind, val, result, joined,
          callDisposed, initCalls, hasController, initialized, resetCount,
          daWait, daReady, emitted, lost, stdoutLog, recorders, nextRec,
          proc, mainState, procCode, term, exitStatus, resizes, now, returned,
          requestId, pendingRequests, future, writeCb, responses, clientExit, rx, toolReplies,
          startup, last>>

managerVars == <<session, sessionPromise, autoRecordingId, record>>
createVars == <<nextId, promiseState, waiters>>
sessionVars ==
  <<disposed, exited, killCount, dataListeners, exitListeners, exitArgs, cols, ptyInput>>
callerVars == <<microtasks, pc, kind, val, result, joined, callDisposed, initCalls>>
sandboxVars == <<hasController, initialized, resetCount>>
daVars == <<daWait, daReady>>
outputVars == <<emitted, lost, stdoutLog>>
recVars == <<recorders, nextRec>>
procVars == <<proc, mainState, procCode, term, exitStatus>>
clockVars == <<now>>
metaVars == <<returned>>
clientVars == <<requestId, pendingRequests, future, writeCb, responses, clientExit, rx>>
toolVars == <<toolReplies>>
startVars == <<startup>>

\* ------------------------------------------------------- TerminalSession

\* isActive() that ignores the disposed flag
isActiveAlways(s) == TRUE

\* session.ts isActive(): !this.disposed
isActive(s) == ~disposed[s]

\* session.ts dispose(): the guard, the flag and the kill
SessionDisposeEffect(s) ==
  IF ~disposed[s]
    THEN /\ disposed' = [disposed EXCEPT ![s] = TRUE]
         /\ killCount' = [killCount EXCEPT ![s] = @ + 1]
    ELSE UNCHANGED <<disposed, killCount>>

\* the sessions whose child process was spawned
Spawned == {s \in SessionIds : promiseState[s] = "fulfilled"}

\* the sessions that are live: spawned and not disposed
Live == {s \in Spawned : isActive(s)}

\* ------------------------------------------------------- TerminalManager

\* getSessionAsync without its test for an active session
HasActiveSessionNever == FALSE

\* manager.ts hasActiveSession(), and the test at the top of getSessionAsync
HasActiveSession == session # 0 /\ isActive(session)

\* getSessionAsync without its test for a construction in flight
CreationInProgressNever == FALSE

\* manager.ts:54 - if (this.sessionPromise)
CreationInProgress == sessionPromise # 0

\* manager.ts:88 - the test of the deprecated getSession(): it throws when this holds
GetSessionThrows == session = 0 \/ ~isActive(session)

\* startAutoRecording without its test of this.autoRecordingId
AlreadyAutoRecordingNever == FALSE

\* manager.ts:119 - if (this.autoRecordingId) return
AlreadyAutoRecording == autoRecordingId # 0

\* manager.ts:108 - this.options.record && this.options.record !== 'off'
AutoRecordRequested == record \in {"always", "on-failure"}

\* ------------------------------------------- Recorder / RecordingManager
\* The recording module is not among the sources; what follows is it as the
\* specification describes it (sections 3 and 4.2).

\* A recorder: its state, mode, event log and header, the log file on disk ("none",
\* "partial" while recording, "final" when persisted), whether finalize returned a
\* path, the two timers (armed or not; rearmed flips when the inactivity timer is
\* reset), who created it ("auto": the manager, "tool": a startRecording request) and
\* the exit code finalize was given; the wall-clock time of each logged event (reals)
\* and the offset from the start it is stored with (stamps), the time of the start or
\* of the last logged event (lastAt), the times the two timers are due when armed
\* (maxAt, inactAt), and how many times the artifact was written (writes).
NoRecorder == [state |-> "none", mode |-> "off", events |-> <<>>, hdrCols |-> 0,
               file |-> "none", path |-> FALSE, maxTimer |-> FALSE,
               inactTimer |-> FALSE, rearmed |-> 0, by |-> "", code |-> NoCode,
               reals |-> <<>>, stamps |-> <<>>, lastAt |-> 0, maxAt |-> 0,
               inactAt |-> 0, writes |-> 0]

\* RecordingManager.createRecording(options): a new recorder, idle
CreatedRecorder(mode, who) ==
  [NoRecorder EXCEPT !.state = "idle", !.mode = mode, !.by = who]

\* Recorder.start(cols, rows, env): the header, the log file, the two timers;
\* under mode 'off' nothing is started
RecorderStart(rec, c) ==
  IF rec.state = "idle" /\ rec.mode # "off"
    THEN [rec EXCEPT !.state = "recording", !.hdrCols = c, !.file = "partial",
                     !.maxTimer = TRUE, !.inactTimer = TRUE, !.lastAt = now,
                     !.maxAt = now + MaxDuration, !.inactAt = now + InactivityTimeout]
    ELSE rec

\* the write-time transform without the cap
ClampGapNone(gap) == gap

\* the idle-time cap: the gap an event is stored with
ClampGap(gap) == IF gap > IdleTimeLimit THEN IdleTimeLimit ELSE gap

\* the offset from the start the next event of rec is stored with
NextStamp(rec) ==
  (IF rec.stamps = <<>> THEN 0 ELSE rec.stamps[Len(rec.stamps)])
    + ClampGap(now - rec.lastAt)

\* the inactivity deadline counted from time 0, not from the time of the event
NextInactAtStale == InactivityTimeout

\* the inactivity timer is reset to inactivityTimeout seconds from now
NextInactAt == now + InactivityTimeout

\* an event is logged: its time, its stored offset, the inactivity timer reset
Logged(rec, e) ==
  [rec EXCEPT !.events = Append(@, e), !.reals = Append(@, now),
              !.stamps = Append(@, NextStamp(rec)), !.lastAt = now,
              !.inactTimer = TRUE, !.inactAt = NextInactAt, !.rearmed = 1 - @]

\* recordOutput and recordResize without their test of the state
AcceptsAlways(rec) == rec.state # "none"

\* the guard of recordOutput and recordResize
Accepts(rec) == rec.state = "recording"

\* Recorder.recordOutput(data): append, and reset the inactivity timer
RecordOutput(rec, ev) ==
  IF Accepts(rec)
    THEN Logged(rec, <<"o", ev>>)
    ELSE rec

\* Recorder.recordResize(cols, rows)
RecordResize(rec, c) ==
  IF Accepts(rec)
    THEN Logged(rec, <<"r", c>>)
    ELSE rec

\* the persistence decision of finalize
ShouldSave(mode, exitCode) ==
  mode = "always" \/ (mode = "on-failure" /\ exitCode # 0)

\* finalize that leaves the timers armed
RecorderFinalizeKeepsTimers(rec, exitCode) ==
  IF rec.state = "recording"
    THEN [rec EXCEPT !.state = "finalized", !.code = exitCode,
                     !.file = IF ShouldSave(rec.mode, exitCode) THEN "final" ELSE "none",
                     !.path = ShouldSave(rec.mode, exitCode),
                     !.writes = IF ShouldSave(rec.mode, exitCode) THEN @ + 1 ELSE @]
    ELSE rec

\* finalize that acts on a finalized recorder as on a recording one
RecorderFinalizeAgain(rec, exitCode) ==
  IF rec.state # "none"
    THEN [rec EXCEPT !.state = "finalized", !.maxTimer = FALSE, !.inactTimer = FALSE,
                     !.file = IF ShouldSave(rec.mode, exitCode) THEN "final" ELSE "none",
                     !.path = ShouldSave(rec.mode, exitCode), !.code = exitCode,
                     !.writes = IF ShouldSave(rec.mode, exitCode) THEN @ + 1 ELSE @]
    ELSE rec

\* Recorder.finalize(exitCode): cancel the timers, decide persistence
RecorderFinalize(rec, exitCode) ==
  IF rec.state = "recording"
    THEN [rec EXCEPT !.state = "finalized", !.maxTimer = FALSE, !.inactTimer = FALSE,
                     !.file = IF ShouldSave(rec.mode, exitCode) THEN "final" ELSE "none",
                     !.path = ShouldSave(rec.mode, exitCode), !.code = exitCode,
                     !.writes = IF ShouldSave(rec.mode, exitCode) THEN @ + 1 ELSE @]
    ELSE rec

\* stopping one recording finalizes all of them
StopRecordingAll(recs, r, exitCode) ==
  [q \in RecIds |-> RecorderFinalize(recs[q], exitCode)]

\* RecordingManager.stopRecording(id): finalize the recorder of that id
StopRecording(recs, r, exitCode) ==
  [recs EXCEPT ![r] = RecorderFinalize(@, exitCode)]

\* RecordingManager.recordOutputToAll(data)
RecordOutputToAll(recs, ev) == [r \in RecIds |-> RecordOutput(recs[r], ev)]

\* RecordingManager.recordResizeToAll(cols, rows)
RecordResizeToAll(recs, c) == [r \in RecIds |-> RecordResize(recs[r], c)]

\* finalizeAll that leaves the recorder created last as it is
FinalizeAllButLast(recs, exitCode) ==
  [r \in RecIds |-> IF r = MaxRecordings THEN recs[r]
                                         ELSE RecorderFinalize(recs[r], exitCode)]

\* RecordingManager.finalizeAll(exitCode)
FinalizeAll(recs, exitCode) == [r \in RecIds |-> RecorderFinalize(recs[r], exitCode)]

\* the metadata finalize returns: the id, whether saved, whether a path is given
Metadata(r, rec) == [id |-> r, saved |-> rec.file = "final", path |-> rec.path]

\* the list finalizeAll returns: the metadata of the recorders it finalized, from
\* recorder r on
RECURSIVE MetadataFrom(_, _, _)
MetadataFrom(recs, exitCode, r) ==
  IF r > MaxRecordings THEN <<>>
  ELSE (IF recs[r].state = "recording"
          THEN << Metadata(r, RecorderFinalize(recs[r], exitCode)) >>
          ELSE <<>>)
       \o MetadataFrom(recs, exitCode, r + 1)

\* no finalizeRecordings call yet
NoResult == [code |-> NoCode, list |-> <<>>]

\* manager.ts:152-154 - finalizeRecordings(exitCode): what the call leaves to its caller
FinalizeResult(recs, exitCode) ==
  [code |-> exitCode, list |-> MetadataFrom(recs, exitCode, 1)]

\* session.ts:159-161 - the data listeners are called in the order they subscribed;
\* "rec" is the manager's hook (manager.ts:104), "stdout" the passthrough (index.ts:380)
RECURSIVE NotifyData(_, _, _)
NotifyData(recs, listeners, ev) ==
  IF listeners = <<>> THEN recs
  ELSE NotifyData(IF Head(listeners) = "rec" THEN RecordOutputToAll(recs, ev) ELSE recs,
                  Tail(listeners), ev)

\* index.ts:380-381 - the passthrough writes the data to stdout, once for each time
\* it is subscribed
RECURSIVE NotifyStdout(_, _, _)
NotifyStdout(log, listeners, ev) ==
  IF listeners = <<>> THEN log
  ELSE NotifyStdout(IF Head(listeners) = "stdout" THEN Append(log, ev) ELSE log,
                    Tail(listeners), ev)

\* how many times the manager's hooks are subscribed to a session; onResize is
\* subscribed in the same step as onData (manager.ts:104-105)
RecHooks(s) == Cardinality({i \in 1..Len(dataListeners[s]) : dataListeners[s][i] = "rec"})

RECURSIVE NotifyResize(_, _, _)
NotifyResize(recs, n, c) ==
  IF n = 0 THEN recs ELSE NotifyResize(RecordResizeToAll(recs, c), n - 1, c)

\* ------------------------------------------------- the proxy client's promises

\* no sendRequest call has made the promise of this id
NoFuture == [state |-> "none", by |-> 0]

\* client.ts:97 - new Promise(...): pending until resolve or reject is called
PendingFuture == [state |-> "pending", by |-> 0]

\* resolve or reject of a promise: only the first call settles it.  by is the position
\* in responses of the response line that settled it, 0 for a write error.
Settle(f, outcome, n) ==
  IF f.state = "pending" THEN [state |-> outcome, by |-> n] ELSE f

Settled(f) == f.state \in {"resolved", "rejected"}

\* the pending entry stays in the map when its response is handled
ForgetNot(pending, id) == pending

\* client.ts:65, 101 - pendingRequests.delete(id)
Forget(pending, id) == pending \ {id}

\* the data handler takes the oldest pending request, whatever id the line carries
MatchingOldest(pending, id) ==
  {k \in pending : \A q \in pending : k <= q}

\* the data handler takes every pending request for the one the line answers
MatchingAny(pending, id) == pending

\* client.ts:63-64 - pendingRequests.get(response.id): the entry of that id, if any
Matching(pending, id) == {k \in pending : k = id}

\* a line that JSON.parse rejects
MalformedLine == [id |-> 0, error |-> FALSE]

\* client.ts:15-19 - SocketResponse: a line that parses carries an id and either a
\* result or an error
ResponseLines == [id : RequestIds, error : BOOLEAN]

Lines == {MalformedLine} \cup ResponseLines

\* the bytes on the wire: the ASCII bytes of a response with id 1 or id 2, the
\* lead byte (L) and the continuation byte (C) of a two-byte UTF-8 character inside
\* a string, and the newline (N)
Bytes == {"1", "2", "L", "C", "N"}

\* client.ts:53 - data.toString(): the UTF-8 decoding of one chunk on its own.  A
\* lead byte with its continuation byte is the character (E); a lead byte the chunk
\* ends after and a continuation byte the chunk begins with are each decoded as
\* the replacement character (R)
RECURSIVE Decode(_)
Decode(bytes) ==
  IF bytes = <<>> THEN <<>>
  ELSE IF Head(bytes) = "L"
    THEN IF Len(bytes) >= 2 /\ bytes[2] = "C"
           THEN <<"E">> \o Decode(SubSeq(bytes, 3, Len(bytes)))
           ELSE <<"R">> \o Decode(Tail(bytes))
  ELSE IF Head(bytes) = "C" THEN <<"R">> \o Decode(Tail(bytes))
  ELSE <<Head(bytes)>> \o Decode(Tail(bytes))

\* client.ts:54-55 - buffer.split("\n") and lines.pop(): the pieces that a newline
\* ended (lines) and the piece after the last newline (rest)
RECURSIVE Split(_, _, _)
Split(text, cur, acc) ==
  IF text = <<>> THEN [lines |-> acc, rest |-> cur]
  ELSE IF Head(text) = "N" THEN Split(Tail(text), <<>>, Append(acc, cur))
  ELSE Split(Tail(text), Append(cur, Head(text)), acc)

\* the piece after the last newline is thrown away
BufferedNot(rest) == <<>>

\* client.ts:55 - buffer = lines.pop() || "": the piece after the last newline is
\* kept for the next chunk
Buffered(rest) == rest

\* client.ts:60 - JSON.parse(line): a line with the bytes of exactly one id is the
\* response with that id, any other line does not parse; the characters of a string
\* in it, whole or replaced, do not change that
Parse(line) ==
  LET ids == SelectSeq(line, LAMBDA ch : ch \in {"1", "2"})
  IN  IF Len(ids) = 1
        THEN [id |-> IF ids[1] = "1" THEN 1 ELSE 2, error |-> FALSE]
        ELSE MalformedLine

\* client.ts:57-76 - the loop over the lines of one chunk: an empty line is passed
\* over (line.trim()), a line that does not parse is ignored, a parsed line settles
\* the pending entry of its id
RECURSIVE TakeLines(_, _)
TakeLines(st, lines) ==
  IF lines = <<>> THEN st
  ELSE LET line == Head(lines)
           p == Parse(line)
           hit == Matching(st.pending, p.id)
           next ==
             IF line = <<>> THEN st
             ELSE IF p = MalformedLine
               THEN [st EXCEPT !.responses = Append(@, p)]
             ELSE [pending |-> IF hit # {} THEN Forget(st.pending, p.id)
                                           ELSE st.pending,
                   future |-> [k \in RequestIds |->
                                 IF k \in hit
                                   THEN Settle(st.future[k], "resolved",
                                               Len(st.responses) + 1)
                                   ELSE st.future[k]],
                   responses |-> Append(st.responses, p)]
       IN  TakeLines(next, Tail(lines))

\* client.ts:79, 84 - the events of the socket that tell the connection is gone
SocketEvents == {"error", "close"}

\* the data handler lets the exception of JSON.parse escape
CatchesParseErrorNot == FALSE

\* client.ts:61, 72-74 - try { JSON.parse ... } catch { ignore }
CatchesParseError == TRUE

\* index.ts:219 - main() has not run yet
Booting == [pc |-> "boot", mode |-> "", roles |-> {}, cause |-> "", message |-> "",
            exit |-> NoCode, want |-> FALSE, platform |-> "", sandboxed |-> FALSE]

\* how net.createConnection may end: the connect callback, or an error event with
\* a code
ConnectOutcomes == {"connected", "ENOENT", "ECONNREFUSED", "EACCES"}

\* the same report whatever the error code
ConnectErrorPlain(code) == "failed"

\* client.ts:215-233 - the error connectToSocket rejects with, by error code
ConnectError(code) ==
  IF code = "ENOENT" THEN "No tmcp session found"
  ELSE IF code = "ECONNREFUSED" THEN "Connection refused"
  ELSE code

\* the --mcp branch ends with the error when the connection fails
FallsBackNever == FALSE

\* index.ts:229-236 - the --mcp branch catches the failure of startMcpClientMode and
\* goes on to startServer
FallsBack == TRUE

\* ----------------------------------------------------------------- Init

Init ==
  /\ session = 0
  /\ sessionPromise = 0
  /\ autoRecordingId = 0
  /\ record \in RecordOptions
  /\ nextId = 0
  /\ promiseState = [s \in SessionIds |-> "none"]
  /\ waiters = [s \in SessionIds |-> <<>>]
  /\ disposed = [s \in SessionIds |-> FALSE]
  /\ exited = [s \in SessionIds |-> FALSE]
  /\ killCount = [s \in SessionIds |-> 0]
  /\ dataListeners = [s \in SessionIds |-> <<>>]
  /\ exitListeners = [s \in SessionIds |-> 0]
  /\ exitArgs = [s \in SessionIds |-> <<>>]
  /\ cols = [s \in SessionIds |-> DefaultCols]
  /\ ptyInput = [s \in SessionIds |-> 0]
  /\ microtasks = <<>>
  /\ pc = [c \in Callers |-> "idle"]
  /\ kind = [c \in Callers |-> "get"]
  /\ val = [c \in Callers |-> 0]
  /\ result = [c \in Callers |-> 0]
  /\ joined = [c \in Callers |-> 0]
  /\ callDisposed = [c \in Callers |-> {}]
  /\ initCalls = 0
  /\ hasController \in BOOLEAN
  /\ initialized = hasController
  /\ resetCount = 0
  /\ daWait = 0
  /\ daReady = 0
  /\ emitted = 0
  /\ lost = 0
  /\ recorders = [r \in RecIds |-> NoRecorder]
  /\ nextRec = 0
  /\ proc = "running"
  /\ mainState = "none"
  /\ procCode = NoCode
  /\ term = "none"
  /\ exitStatus = NoCode
  /\ resizes = 0
  /\ now = 0
  /\ stdoutLog = <<>>
  /\ returned = NoResult
  /\ requestId = 0
  /\ pendingRequests = {}
  /\ future = [k \in RequestIds |-> NoFuture]
  /\ writeCb = [k \in RequestIds |-> "none"]
  /\ responses = <<>>
  /\ clientExit = NoCode
  /\ rx = [sent |-> <<>>, got |-> 0, buffer |-> <<>>]
  /\ toolReplies = <<>>
  /\ startup = Booting
  /\ last = ""

\* ------------------------------------------- getSessionAsync / initSession

\* manager.ts:48-63 - getSessionAsync up to its first suspension, run by caller c
GetSessionAsync(c) ==
  IF HasActiveSession
    THEN \* return this.session
         /\ val' = [val EXCEPT ![c] = session]
         /\ joined' = [joined EXCEPT ![c] = 0]
         /\ pc' = [pc EXCEPT ![c] = "outer"]
         /\ microtasks' = Append(microtasks, c)
         /\ UNCHANGED <<sessionPromise, nextId, promiseState, waiters>>
    ELSE IF CreationInProgress
      THEN \* return this.sessionPromise
           /\ joined' = [joined EXCEPT ![c] = sessionPromise]
           /\ pc' = [pc EXCEPT ![c] = "joined"]
           /\ IF promiseState[sessionPromise] = "pending"
                THEN /\ waiters' = [waiters EXCEPT ![sessionPromise] = Append(@, c)]
                     /\ microtasks' = microtasks
                ELSE /\ waiters' = waiters
                     /\ microtasks' = Append(microtasks, c)
           /\ UNCHANGED <<val, sessionPromise, nextId, promiseState>>
      ELSE \* this.sessionPromise = TerminalSession.create(...); await it
           /\ nextId < MaxSessions
           /\ nextId' = nextId + 1
           /\ sessionPromise' = nextId + 1
           /\ promiseState' = [promiseState EXCEPT ![nextId + 1] = "pending"]
           /\ waiters' = [waiters EXCEPT ![nextId + 1] = <<c>>]
           /\ joined' = [joined EXCEPT ![c] = nextId + 1]
           /\ pc' = [pc EXCEPT ![c] = "inner"]
           /\ UNCHANGED <<val, microtasks>>

\* a task calls getSessionAsync ("get"), initSession ("init", manager.ts:100-101), or
\* is startInteractiveMode calling initSession ("main", index.ts:373)
Call(c, k) ==
  /\ proc # "exited"
  /\ pc[c] = "idle"
  /\ k # "get" => initCalls < MaxInitCalls
  /\ k = "main" => mainState = "none"
  /\ kind' = [kind EXCEPT ![c] = k]
  /\ initCalls' = IF k = "get" THEN initCalls ELSE initCalls + 1
  /\ mainState' = IF k = "main" THEN "starting" ELSE mainState
  /\ callDisposed' = [callDisposed EXCEPT ![c] = {s \in SessionIds : disposed[s]}]
  /\ GetSessionAsync(c)
  /\ last' = ""
  /\ UNCHANGED <<session, autoRecordingId, record, result, sessionVars, sandboxVars,
                 daVars, outputVars, recVars, proc, procCode, term, exitStatus, resizes, clockVars,
                 metaVars, clientVars, toolVars, startVars>>

\* TerminalSession.create settles: the child process is spawned (session k exists and
\* is active) or the construction fails.  The awaiting continuations are queued in the
\* order they awaited.
CreateSettle(k, ok) ==
  /\ proc # "exited"
  /\ microtasks = <<>>
  /\ promiseState[k] = "pending"
  /\ promiseState' = [promiseState EXCEPT ![k] = IF ok THEN "fulfilled" ELSE "rejected"]
  /\ microtasks' = waiters[k]
  /\ waiters' = [waiters EXCEPT ![k] = <<>>]
  /\ last' = ""
  /\ UNCHANGED <<managerVars, nextId, sessionVars, pc, kind, val, result, joined,
                 callDisposed, initCalls, sandboxVars, daVars, outputVars, recVars,
                 procVars, resizes, clockVars,
                 metaVars, clientVars, toolVars, startVars>>

\* what an await of construction k produces
Outcome(k) == IF promiseState[k] = "fulfilled" THEN k ELSE Rejected

\* the promise in flight is cleared only when the construction succeeded
CreatorResumeNoFinally(c) ==
  /\ pc[c] = "inner"
  /\ session' = IF Outcome(joined[c]) # Rejected THEN joined[c] ELSE session
  /\ sessionPromise' = IF Outcome(joined[c]) # Rejected THEN 0 ELSE sessionPromise
  /\ val' = [val EXCEPT ![c] = Outcome(joined[c])]
  /\ pc' = [pc EXCEPT ![c] = "outer"]
  /\ microtasks' = Append(Tail(microtasks), c)
  /\ UNCHANGED <<autoRecordingId, result, sessionVars, recVars, mainState>>

\* manager.ts:64-69 - the creator resumes: this.session = <session>, and in the
\* finally this.sessionPromise = null
CreatorResume(c) ==
  /\ pc[c] = "inner"
  /\ session' = IF Outcome(joined[c]) # Rejected THEN joined[c] ELSE session
  /\ sessionPromise' = 0
  /\ val' = [val EXCEPT ![c] = Outcome(joined[c])]
  /\ pc' = [pc EXCEPT ![c] = "outer"]
  /\ microtasks' = Append(Tail(microtasks), c)
  /\ UNCHANGED <<autoRecordingId, result, sessionVars, recVars, mainState>>

\* manager.ts:55 - a caller that was handed the promise in flight gets its outcome
JoinerResume(c) ==
  /\ pc[c] = "joined"
  /\ val' = [val EXCEPT ![c] = Outcome(joined[c])]
  /\ pc' = [pc EXCEPT ![c] = "outer"]
  /\ microtasks' = Append(Tail(microtasks), c)
  /\ UNCHANGED <<session, sessionPromise, autoRecordingId, result, sessionVars,
                 recVars, mainState>>

\* manager.ts:118-139 - startAutoRecording
StartAutoRecording ==
  IF AlreadyAutoRecording
    THEN UNCHANGED <<autoRecordingId, recVars>>
    ELSE /\ recorders' = [recorders EXCEPT ![nextRec + 1] =
                RecorderStart(CreatedRecorder(record, "auto"),
                              IF session # 0 THEN cols[session] ELSE DefaultCols)]
         /\ nextRec' = nextRec + 1
         /\ autoRecordingId' = nextRec + 1

\* manager.ts:103-112 - initSession after its await: subscribe the recording hooks to
\* the session it was given, start the auto-recording, return the session
InitSessionResume(c) ==
  /\ dataListeners' = [dataListeners EXCEPT ![val[c]] = Append(@, "rec")]
  /\ IF AutoRecordRequested
       THEN StartAutoRecording
       ELSE UNCHANGED <<autoRecordingId, recVars>>

\* the awaited call returns to its caller
OuterResume(c) ==
  /\ pc[c] = "outer"
  /\ result' = [result EXCEPT ![c] = val[c]]
  /\ IF kind[c] # "get" /\ val[c] # Rejected
       THEN InitSessionResume(c)
       ELSE UNCHANGED <<dataListeners, autoRecordingId, recVars>>
  /\ IF kind[c] = "main" /\ val[c] # Rejected
       THEN /\ pc' = [pc EXCEPT ![c] = "main"]
            /\ microtasks' = Append(Tail(microtasks), c)
       ELSE /\ pc' = [pc EXCEPT ![c] = "done"]
            /\ microtasks' = Tail(microtasks)
  /\ UNCHANGED <<session, sessionPromise, val, disposed, exited, killCount,
                 exitListeners, exitArgs, cols, ptyInput, mainState>>

\* index.ts:373-417 - startInteractiveMode after its await of initSession: the stdout
\* passthrough and the exit handler are subscribed to the session
MainResume(c) ==
  /\ pc[c] = "main"
  /\ dataListeners' = [dataListeners EXCEPT ![result[c]] = Append(@, "stdout")]
  /\ exitListeners' = [exitListeners EXCEPT ![result[c]] = @ + 1]
  /\ mainState' = "hooked"
  /\ pc' = [pc EXCEPT ![c] = "done"]
  /\ microtasks' = Tail(microtasks)
  /\ UNCHANGED <<session, sessionPromise, autoRecordingId, val, result, disposed,
                 exited, killCount, exitArgs, cols, ptyInput, recVars>>

\* the event loop runs the microtask at the head of the queue
RunMicrotask ==
  /\ proc # "exited"
  /\ microtasks # <<>>
  /\ LET c == Head(microtasks) IN
       /\ \/ CreatorResume(c)
          \/ JoinerResume(c)
          \/ OuterResume(c)
          \/ MainResume(c)
       /\ last' = ""
  /\ UNCHANGED <<record, createVars, kind, joined, callDisposed, initCalls, sandboxVars,
                 daVars, outputVars, proc, procCode, term, exitStatus, resizes, clockVars,
                 metaVars, clientVars, toolVars, startVars>>

\* the caller is done with the session it was given and may call again
Ack(c) ==
  /\ proc # "exited"
  /\ pc[c] = "done"
  /\ pc' = [pc EXCEPT ![c] = "idle"]
  /\ kind' = [kind EXCEPT ![c] = "get"]
  /\ val' = [val EXCEPT ![c] = 0]
  /\ result' = [result EXCEPT ![c] = 0]
  /\ joined' = [joined EXCEPT ![c] = 0]
  /\ callDisposed' = [callDisposed EXCEPT ![c] = {}]
  /\ last' = ""
  /\ UNCHANGED <<managerVars, createVars, sessionVars, microtasks, initCalls,
                 sandboxVars, daVars, outputVars, recVars, procVars, resizes, clockVars,
                 metaVars, clientVars, toolVars, startVars>>

\* ------------------------------------------------- dispose / disposeAsync

\* manager.ts:215-220 - dispose()
ManagerDispose ==
  IF session # 0
    THEN /\ SessionDisposeEffect(session)
         /\ session' = 0
    ELSE UNCHANGED <<session, disposed, killCount>>

\* cleanup() without its test of this.initialized
CleanupNeededAlways == TRUE

\* controller.ts:212 - if (this.initialized)
CleanupNeeded == initialized

\* manager.ts:227 - if (this.sandboxController)
HoldsSandbox == hasController

Dispose ==
  /\ proc # "exited"
  /\ ManagerDispose
  /\ last' = IF last \in {"dispose", "disposeAgain", "daDone"}
               THEN "disposeAgain" ELSE "dispose"
  /\ UNCHANGED <<sessionPromise, autoRecordingId, record, createVars, exited,
                 dataListeners, exitListeners, exitArgs, cols, ptyInput, callerVars, sandboxVars,
                 daVars, outputVars, recVars, procVars, resizes, clockVars,
                 metaVars, clientVars, toolVars, startVars>>

\* manager.ts:225-230 and controller.ts:211-213 - disposeAsync up to its suspension:
\* dispose(), then cleanup() which starts SandboxManager.reset() when initialized
DisposeAsyncCall ==
  /\ proc # "exited"
  /\ daWait + daReady < MaxDisposeAsync
  /\ ManagerDispose
  /\ IF HoldsSandbox /\ CleanupNeeded
       THEN /\ daWait' = daWait + 1
            /\ daReady' = daReady
       ELSE /\ daWait' = daWait
            /\ daReady' = daReady + 1
  /\ last' = IF last = "daDone" THEN "daCallAgain" ELSE "daCall"
  /\ UNCHANGED <<sessionPromise, autoRecordingId, record, createVars, exited,
                 dataListeners, exitListeners, exitArgs, cols, ptyInput, callerVars, sandboxVars,
                 outputVars, recVars, procVars, resizes, clockVars,
                 metaVars, clientVars, toolVars, startVars>>

\* controller.ts:213-215 - a SandboxManager.reset() ends (it is taken to succeed) and
\* cleanup resumes: this.initialized = false
ResetDone ==
  /\ proc # "exited"
  /\ microtasks = <<>>
  /\ daWait > 0
  /\ daWait' = daWait - 1
  /\ daReady' = daReady + 1
  /\ initialized' = FALSE
  /\ resetCount' = resetCount + 1
  /\ last' = IF last \in {"daCall", "daCallAgain"} THEN last ELSE ""
  /\ UNCHANGED <<managerVars, createVars, sessionVars, callerVars, hasController,
                 outputVars, recVars, procVars, resizes, clockVars,
                 metaVars, clientVars, toolVars, startVars>>

\* a disposeAsync call completes: its promise resolves
DisposeAsyncDone ==
  /\ proc # "exited"
  /\ daReady > 0
  /\ daReady' = daReady - 1
  /\ last' = IF last \in {"daCall", "daCallAgain"} /\ daWait = 0 /\ daReady = 1
               THEN "daDone" ELSE ""
  /\ UNCHANGED <<managerVars, createVars, sessionVars, callerVars, sandboxVars,
                 daWait, outputVars, recVars, procVars, resizes, clockVars,
                 metaVars, clientVars, toolVars, startVars>>

\* ------------------------------------------------------ the child process

\* the onData callback calls the listeners whatever the state of the session
DeliversAlways(s) == TRUE

\* session.ts:156 - if (!this.disposed): output is passed on only by a session that
\* has not been disposed
Delivers(s) == ~disposed[s]

\* session.ts:155-163 - the child of session s emits output: unless the session is
\* disposed, every data listener is called in order
PtyData(s) ==
  /\ proc # "exited"
  /\ microtasks = <<>>
  /\ s \in Spawned
  /\ ~exited[s]
  /\ emitted < MaxEvents
  /\ emitted' = emitted + 1
  /\ IF Delivers(s)
       THEN /\ recorders' = NotifyData(recorders, dataListeners[s], emitted + 1)
            /\ lost' = IF RecHooks(s) = 0 THEN lost + 1 ELSE lost
            /\ stdoutLog' = NotifyStdout(stdoutLog, dataListeners[s], emitted + 1)
       ELSE UNCHANGED <<recorders, lost, stdoutLog>>
  /\ last' = ""
  /\ UNCHANGED <<managerVars, createVars, sessionVars, callerVars, sandboxVars, daVars,
                 nextRec, procVars, resizes, clockVars,
                 metaVars, clientVars, toolVars, startVars>>

\* the listeners are called with 0 whatever code the child ended with
ExitCallsCodeLost(n, code) == [i \in 1..n |-> 0]

\* session.ts:167-169 - for (const listener of this.exitListeners) listener(exitCode):
\* the calls made for n listeners
ExitCalls(n, code) == [i \in 1..n |-> code]

\* the exit handler hands 0 to finalizeRecordings whatever the shell's code
ExitHandlerCodeZero(code) == 0

\* index.ts:400 - manager.finalizeRecordings(code): the code the exit handler passes
ExitHandlerCode(code) == code

\* session.ts:165-170 - the child of session s ends with a code: the session is
\* disposed and the exit listeners are called.  The interactive exit handler
\* (index.ts:398-400) calls manager.finalizeRecordings(code) and awaits it.
PtyExit(s, code) ==
  /\ proc # "exited"
  /\ microtasks = <<>>
  /\ s \in Spawned
  /\ ~exited[s]
  /\ exited' = [exited EXCEPT ![s] = TRUE]
  /\ disposed' = [disposed EXCEPT ![s] = TRUE]
  /\ exitArgs' = [exitArgs EXCEPT ![s] = @ \o ExitCalls(exitListeners[s], code)]
  /\ IF exitListeners[s] > 0 /\ proc = "running"
       THEN /\ recorders' = FinalizeAll(recorders, ExitHandlerCode(code))
            /\ returned' = FinalizeResult(recorders, ExitHandlerCode(code))
            /\ proc' = "finalizing"
            /\ procCode' = code
       ELSE UNCHANGED <<recorders, returned, proc, procCode>>
  /\ last' = ""
  /\ UNCHANGED <<managerVars, createVars, killCount, dataListeners, exitListeners, cols,
                 ptyInput, callerVars, sandboxVars, daVars, outputVars, nextRec,
                 mainState, term, exitStatus, resizes, clockVars, clientVars, toolVars, startVars>>

HandlerExitStatusZero(code) == 0

\* index.ts:416 - process.exit(code): the exit handler ends the process with the code
\* it was called with
HandlerExitStatus(code) == code

\* index.ts:469 - process.exit(0) once cleanupAsync has resolved
TermExitStatus == 0

\* index.ts:415-416, 441-449, 472-474 - the exit handler resumes once
\* finalizeRecordings has resolved: cleanup() disposes the manager, then
\* process.exit(code); the 'exit' event runs cleanup() again, which finds no session
ExitCleanup ==
  /\ proc = "finalizing"
  /\ microtasks = <<>>
  /\ ManagerDispose
  /\ proc' = "exited"
  /\ exitStatus' = HandlerExitStatus(procCode)
  /\ last' = ""
  /\ UNCHANGED <<sessionPromise, autoRecordingId, record, createVars, exited,
                 dataListeners, exitListeners, exitArgs, cols, ptyInput, callerVars, sandboxVars,
                 daVars, outputVars, recVars, mainState, procCode, term, resizes, clockVars,
                 metaVars, clientVars, toolVars, startVars>>

\* index.ts:452-454, 468-469, manager.ts:225-230 - SIGTERM arrives: cleanupAsync()
\* calls manager.disposeAsync(), which disposes the manager at once and then awaits
\* the sandbox cleanup when there is a controller (one signal is delivered)
SigTerm ==
  /\ proc # "exited"
  /\ mainState = "hooked"
  /\ term = "none"
  /\ ManagerDispose
  /\ term' = IF HoldsSandbox /\ CleanupNeeded THEN "wait" ELSE "ready"
  /\ last' = ""
  /\ UNCHANGED <<sessionPromise, autoRecordingId, record, createVars, exited,
                 dataListeners, exitListeners, exitArgs, cols, ptyInput, callerVars, sandboxVars,
                 daVars, outputVars, recVars, proc, mainState, procCode, exitStatus,
                 resizes, clockVars, metaVars, clientVars, toolVars, startVars>>

\* controller.ts:213-215 - the SandboxManager.reset() awaited by the SIGTERM
\* handler's disposeAsync ends: this.initialized = false
TermResetDone ==
  /\ proc # "exited"
  /\ microtasks = <<>>
  /\ term = "wait"
  /\ term' = "ready"
  /\ initialized' = FALSE
  /\ resetCount' = resetCount + 1
  /\ last' = ""
  /\ UNCHANGED <<managerVars, createVars, sessionVars, callerVars, hasController,
                 daVars, outputVars, recVars, proc, mainState, procCode, exitStatus,
                 resizes, clockVars, metaVars, clientVars, toolVars, startVars>>

\* index.ts:455-463, 469, 472-474 - cleanupAsync resumes: the socket server closes,
\* the socket file is removed and process.exit(0) runs; the 'exit' event calls
\* cleanup(), which disposes whatever session the manager holds by then
TermExit ==
  /\ proc # "exited"
  /\ microtasks = <<>>
  /\ term = "ready"
  /\ ManagerDispose
  /\ term' = "done"
  /\ proc' = "exited"
  /\ exitStatus' = TermExitStatus
  /\ last' = ""
  /\ UNCHANGED <<sessionPromise, autoRecordingId, record, createVars, exited,
                 dataListeners, exitListeners, exitArgs, cols, ptyInput, callerVars, sandboxVars,
                 daVars, outputVars, recVars, mainState, procCode, resizes, clockVars,
                 metaVars, clientVars, toolVars, startVars>>

\* ------------------------------------------------- the command surface

\* the methods of a session without the test of this.disposed
SessionCallUnchecked(s, op, c) ==
  /\ last' = "ok"
  /\ op = "write" => ptyInput[s] < MaxWrites
  /\ op = "resize" => resizes < MaxResizes
  /\ ptyInput' = IF op = "write" THEN [ptyInput EXCEPT ![s] = @ + 1] ELSE ptyInput
  /\ cols' = IF op = "resize" THEN [cols EXCEPT ![s] = c] ELSE cols
  /\ resizes' = IF op = "resize" THEN resizes + 1 ELSE resizes
  /\ recorders' = IF op = "resize" THEN NotifyResize(recorders, RecHooks(s), c)
                  ELSE recorders

\* session.ts:190-305 - a method of session s: every one but getDimensions throws
\* once the session is disposed; write feeds the child, resize sets the dimensions
\* and notifies the resize listeners, the others read
SessionCall(s, op, c) ==
  IF disposed[s] /\ op # "getDimensions"
    THEN /\ last' = "SessionDisposed"
         /\ UNCHANGED <<cols, ptyInput, recorders, resizes>>
    ELSE /\ last' = "ok"
         /\ op = "write" => ptyInput[s] < MaxWrites
         /\ op = "resize" => resizes < MaxResizes
         /\ ptyInput' = IF op = "write" THEN [ptyInput EXCEPT ![s] = @ + 1] ELSE ptyInput
         /\ cols' = IF op = "resize" THEN [cols EXCEPT ![s] = c] ELSE cols
         /\ resizes' = IF op = "resize" THEN resizes + 1 ELSE resizes
         /\ recorders' = IF op = "resize" THEN NotifyResize(recorders, RecHooks(s), c)
                         ELSE recorders

\* the command surface without the test of getSession(): with no session the call
\* dereferences null and a TypeError is thrown instead
ManagerCallUnguarded(op, c) ==
  IF session = 0
    THEN /\ last' = "TypeError"
         /\ UNCHANGED <<cols, ptyInput, recorders, resizes>>
    ELSE SessionCall(session, op, c)

\* manager.ts:87-94 and 166-210 - write, getContent, getVisibleContent, takeScreenshot,
\* clear, resize, getDimensions: each is this.getSession().<method>(...)
ManagerCall(op, c) ==
  IF GetSessionThrows
    THEN /\ last' = "NotInitialized"
         /\ UNCHANGED <<cols, ptyInput, recorders, resizes>>
    ELSE SessionCall(session, op, c)

\* index.ts:427, 434 - a holder of the session object (the stdin and resize handlers
\* of the interactive process, any caller that was handed the session) calls one of
\* its methods
SessionOp(s, op, c) ==
  /\ proc # "exited"
  /\ s \in Spawned
  /\ SessionCall(s, op, c)
  /\ UNCHANGED <<managerVars, createVars, disposed, exited, killCount, dataListeners,
                 exitListeners, exitArgs, callerVars, sandboxVars, daVars, outputVars,
                 nextRec, procVars, clockVars, metaVars, clientVars, toolVars,
                 startVars>>

ManagerOp(op, c) ==
  /\ proc # "exited"
  /\ ManagerCall(op, c)
  /\ UNCHANGED <<managerVars, createVars, disposed, exited, killCount, dataListeners,
                 exitListeners, exitArgs, callerVars, sandboxVars, daVars, outputVars, nextRec,
                 procVars, clockVars,
                 metaVars, clientVars, toolVars, startVars>>

\* ------------------------------------------------- recordings by request

\* the startRecording tool: createRecording, then start with the current dimensions.
\* One recorder is kept for the auto-recording when it is still to be started.
StartRecordingTool(mode) ==
  /\ proc # "exited"
  /\ nextRec + (IF AutoRecordRequested /\ ~AlreadyAutoRecording THEN 1 ELSE 0)
       < MaxRecordings
  /\ recorders' = [recorders EXCEPT ![nextRec + 1] =
         RecorderStart(CreatedRecorder(mode, "tool"),
                       IF session # 0 THEN cols[session] ELSE DefaultCols)]
  /\ nextRec' = nextRec + 1
  /\ last' = ""
  /\ UNCHANGED <<managerVars, createVars, sessionVars, callerVars, sandboxVars, daVars,
                 outputVars, procVars, resizes, clockVars,
                 metaVars, clientVars, toolVars, startVars>>

\* the stopRecording tool: finalize an active recorder, RecordingNotFound otherwise.
\* The exit code a manual stop hands to finalize is not fixed by the specification:
\* either is taken.
StopRecordingTool(r, code) ==
  /\ proc # "exited"
  /\ IF recorders[r].state = "recording"
       THEN /\ recorders' = StopRecording(recorders, r, code)
            /\ last' = "ok"
       ELSE /\ recorders' = recorders
            /\ last' = "RecordingNotFound"
  /\ UNCHANGED <<managerVars, createVars, sessionVars, callerVars, sandboxVars, daVars,
                 outputVars, nextRec, procVars, resizes, clockVars,
                 metaVars, clientVars, toolVars, startVars>>

\* manager.ts:152-154 - finalizeRecordings(exitCode)
FinalizeRecordings(code) ==
  /\ proc # "exited"
  /\ recorders' = FinalizeAll(recorders, code)
  /\ returned' = FinalizeResult(recorders, code)
  /\ last' = IF \E r \in RecIds : recorders[r].state = "recording"
               THEN "finalizeAll" ELSE "finalizeAllAgain"
  /\ UNCHANGED <<managerVars, createVars, sessionVars, callerVars, sandboxVars, daVars,
                 outputVars, nextRec, procVars, resizes, clockVars, clientVars, toolVars, startVars>>

\* --------------------------------------------------------- the tool server

\* tools/index.ts:36-52 - the names the switch of the CallTool handler has a case for
DirectTools ==
  {"type", "sendKey", "getContent", "takeScreenshot", "startRecording", "stopRecording"}

\* tools/index.ts:52 - the one handler whose promise the switch awaits
AwaitedToolsNone == {}

\* tools/index.ts:52 - the one handler whose promise the dispatcher awaits inside try
AwaitedTools == {"stopRecording"}

\* client.ts:109-170 - the tools the proxy client lists
ClientTools == {"type", "sendKey", "getContent", "takeScreenshot", "clear"}

\* the operations the interface section of the specification names
ExposedOperations ==
  {"type", "sendKey", "getContent", "takeScreenshot", "clear", "startRecording",
   "stopRecording"}

\* the names a request may carry: the exposed operations and one that is none of them
ToolNames == ExposedOperations \cup {"bogus"}

\* how a tool handler may end: it returns, it throws before its first await, or the
\* promise it returned is rejected
HandlerEnds == {"returns", "throws", "rejects"}

\* the handlers that return a promise: stopping a recording finalizes it, which is
\* asynchronous (manager.ts:152); the manager operations behind the other tools
\* (manager.ts:166-204) are synchronous
AsyncHandlers == {"stopRecording"}

\* the ways the handler of a tool can end: only a handler that returns a promise
\* can fail after it has returned
HandlerEndsOf(name) ==
  IF name \in AsyncHandlers THEN HandlerEnds ELSE HandlerEnds \ {"rejects"}

\* a name without a case is served as if it were a tool that returned
DispatchAnyName(name, ends) ==
  IF name \notin DirectTools \/ ends = "returns"
    THEN [kind |-> "result", text |-> ""]
  ELSE IF ends = "throws" \/ name \in AwaitedTools
    THEN [kind |-> "errorResult", text |-> "Error"]
  ELSE [kind |-> "rejected", text |-> "Error"]

\* tools/index.ts:31-69 - the CallTool handler: the switch on the name inside
\* try/catch.  What is thrown inside the try block (the default branch, a handler
\* that throws, the awaited handler that rejects) becomes a result with isError; the
\* rejection of a handler that is returned without await passes the catch by and
\* rejects the CallTool handler.
Dispatch(name, ends) ==
  IF name \notin DirectTools
    THEN [kind |-> "errorResult", text |-> "Unknown tool"]
  ELSE IF ends = "returns"
    THEN [kind |-> "result", text |-> ""]
  ELSE IF ends = "throws" \/ name \in AwaitedTools
    THEN [kind |-> "errorResult", text |-> "Error"]
  ELSE [kind |-> "rejected", text |-> "Error"]

\* a CallTool request arrives at the tool server: the handler runs and the protocol
\* layer answers the request, under the request's id, with what the handler made
CallTool(name, ends) ==
  /\ ends \in HandlerEndsOf(name)
  /\ Len(toolReplies) < MaxToolCalls
  /\ toolReplies' = Append(toolReplies,
         [id |-> Len(toolReplies) + 1, name |-> name,
          kind |-> Dispatch(name, ends).kind, text |-> Dispatch(name, ends).text])
  /\ last' = ""
  /\ UNCHANGED <<managerVars, createVars, sessionVars, callerVars, sandboxVars, daVars,
                 outputVars, recVars, procVars, resizes, clockVars, metaVars,
                 clientVars, startVars>>

\* ------------------------------------------------------- the proxy client

\* client.ts:180-198 - the client's CallTool handler awaits sendRequest inside
\* try/catch: the resolved value is returned as the result, a rejection becomes a
\* result with isError and the message; while the future is pending there is no reply
ClientCallTool(f) ==
  IF f.state = "resolved" THEN [kind |-> "result", text |-> ""]
  ELSE IF f.state = "rejected" THEN [kind |-> "errorResult", text |-> "Error"]
  ELSE [kind |-> "none", text |-> ""]

\* client.ts:90-106 - sendRequest: take the next id, register the pending entry,
\* write the request line
SendRequest ==
  /\ clientExit = NoCode
  /\ requestId < MaxRequests
  /\ requestId' = requestId + 1
  /\ pendingRequests' = pendingRequests \cup {requestId + 1}
  /\ future' = [future EXCEPT ![requestId + 1] = PendingFuture]
  /\ writeCb' = [writeCb EXCEPT ![requestId + 1] = "queued"]
  /\ last' = ""
  /\ UNCHANGED <<managerVars, createVars, sessionVars, callerVars, sandboxVars, daVars,
                 outputVars, recVars, procVars, resizes, clockVars, metaVars,
                 responses, clientExit, rx,
                 toolVars, startVars>>

\* the callback of socket.write takes no notice of the error
WriteDoneIgnoresError(k, ok) ==
  /\ clientExit = NoCode
  /\ writeCb[k] = "queued"
  /\ writeCb' = [writeCb EXCEPT ![k] = IF ok THEN "done" ELSE "failed"]
  /\ last' = ""
  /\ UNCHANGED <<managerVars, createVars, sessionVars, callerVars, sandboxVars, daVars,
                 outputVars, recVars, procVars, resizes, clockVars, metaVars,
                 requestId, pendingRequests, future, responses, clientExit, rx,
                 toolVars, startVars>>

\* client.ts:99-104 - the callback of socket.write for request k: on an error the
\* entry is deleted and the promise rejected
WriteDone(k, ok) ==
  /\ clientExit = NoCode
  /\ writeCb[k] = "queued"
  /\ writeCb' = [writeCb EXCEPT ![k] = IF ok THEN "done" ELSE "failed"]
  /\ IF ok
       THEN UNCHANGED <<pendingRequests, future>>
       ELSE /\ pendingRequests' = Forget(pendingRequests, k)
            /\ future' = [future EXCEPT ![k] = Settle(@, "rejected", 0)]
  /\ last' = ""
  /\ UNCHANGED <<managerVars, createVars, sessionVars, callerVars, sandboxVars, daVars,
                 outputVars, recVars, procVars, resizes, clockVars, metaVars,
                 requestId, responses, clientExit, rx,
                 toolVars, startVars>>

\* client.ts:59-75 - the data handler takes a line: a line that does not parse is
\* ignored; of a line that parses, the pending entry of its id, if there is one, is
\* deleted and its promise settled.  The peer is free to send any line at any time.
SocketData(line) ==
  /\ clientExit = NoCode
  /\ Len(responses) < MaxResponses
  /\ responses' = Append(responses, line)
  /\ IF line = MalformedLine
       THEN /\ UNCHANGED <<pendingRequests, future>>
            /\ clientExit' = IF CatchesParseError THEN clientExit ELSE 1
       ELSE /\ pendingRequests' =
                 IF Matching(pendingRequests, line.id) # {}
                   THEN Forget(pendingRequests, line.id)
                   ELSE pendingRequests
            /\ future' = [k \in RequestIds |->
                 IF k \in Matching(pendingRequests, line.id)
                   THEN Settle(future[k], IF line.error THEN "rejected" ELSE "resolved",
                               Len(responses) + 1)
                   ELSE future[k]]
            /\ UNCHANGED clientExit
  /\ last' = ""
  /\ UNCHANGED <<managerVars, createVars, sessionVars, callerVars, sandboxVars, daVars,
                 outputVars, recVars, procVars, resizes, clockVars, metaVars,
                 requestId, writeCb, rx,
                 toolVars, startVars>>

\* the handlers of the socket's error and close events log and return
\* the peer writes one more byte of its UTF-8 stream: a continuation byte follows
\* a lead byte and nothing else
PeerWrites(b) ==
  /\ clientExit = NoCode
  /\ Len(rx.sent) < MaxStream
  /\ (b = "C") <=> (rx.sent # <<>> /\ rx.sent[Len(rx.sent)] = "L")
  /\ rx' = [rx EXCEPT !.sent = Append(@, b)]
  /\ last' = ""
  /\ UNCHANGED <<managerVars, createVars, sessionVars, callerVars, sandboxVars, daVars,
                 outputVars, recVars, procVars, resizes, clockVars, metaVars,
                 requestId, pendingRequests, future, writeCb, responses, clientExit,
                 toolVars, startVars>>

\* client.ts:52-77 - the data handler is called with a chunk: the next n bytes that
\* were written, wherever that cuts the stream.  The chunk is decoded and added to
\* the buffer, the buffer is split at the newlines, the last piece is kept as the
\* new buffer and the other pieces are taken as lines, in order
SocketChunk(n) ==
  /\ clientExit = NoCode
  /\ n \in 1..(Len(rx.sent) - rx.got)
  /\ LET chunk == SubSeq(rx.sent, rx.got + 1, rx.got + n)
         sp == Split(rx.buffer \o Decode(chunk), <<>>, <<>>)
         st == TakeLines([pending |-> pendingRequests, future |-> future,
                          responses |-> responses], sp.lines)
     IN  /\ rx' = [rx EXCEPT !.got = @ + n, !.buffer = Buffered(sp.rest)]
         /\ pendingRequests' = st.pending
         /\ future' = st.future
         /\ responses' = st.responses
  /\ last' = ""
  /\ UNCHANGED <<managerVars, createVars, sessionVars, callerVars, sandboxVars, daVars,
                 outputVars, recVars, procVars, resizes, clockVars, metaVars,
                 requestId, writeCb, clientExit, toolVars, startVars>>

SocketGoneLogsOnly(ev) ==
  /\ clientExit = NoCode
  /\ last' = ev
  /\ UNCHANGED <<managerVars, createVars, sessionVars, callerVars, sandboxVars, daVars,
                 outputVars, recVars, procVars, resizes, clockVars, metaVars,
                 clientVars, toolVars, startVars>>

\* client.ts:79-87 - the socket of the connected client emits "error" or "close":
\* the handler logs and calls process.exit(1)
SocketGone(ev) ==
  /\ clientExit = NoCode
  /\ clientExit' = ConnectionLostExit
  /\ last' = ev
  /\ UNCHANGED <<managerVars, createVars, sessionVars, callerVars, sandboxVars, daVars,
                 outputVars, recVars, procVars, resizes, clockVars, metaVars,
                 requestId, pendingRequests, future, writeCb, responses, rx, toolVars, startVars>>

\* ------------------------------------------------------------ process start

\* index.ts:219-269 - main() up to its first await.  useMcp is the --mcp flag, isTTY
\* process.stdin.isTTY, nested the TERMINAL_MCP environment variable, exists what
\* fs.existsSync(socketPath) tells.
Main(useMcp, isTTY, nested, exists) ==
  /\ startup.pc = "boot"
  /\ startup' =
       IF useMcp
         THEN IF exists
                THEN [startup EXCEPT !.pc = "connecting", !.mode = "mcp"]
                ELSE [startup EXCEPT !.pc = "running", !.mode = "mcp",
                                     !.roles = {"server"}]
       ELSE IF nested
         THEN [startup EXCEPT !.pc = "exited", !.message = "recursive", !.exit = 1]
       ELSE IF isTTY
         THEN [startup EXCEPT !.pc = "sandbox", !.mode = "interactive"]
       ELSE [startup EXCEPT !.pc = "connecting", !.mode = "client"]
  /\ last' = ""
  /\ UNCHANGED <<managerVars, createVars, sessionVars, callerVars, sandboxVars, daVars,
                 outputVars, recVars, procVars, resizes, clockVars, metaVars,
                 clientVars, toolVars>>

\* client.ts:24-26, 209-235 - the connection attempt of startMcpClientMode ends.
\* Connected, the process is a client.  Failed, connectToSocket rejects: the --mcp
\* branch catches that and calls startServer (index.ts:229-247); without --mcp the
\* rejection reaches main().catch, which reports it and exits 1 (index.ts:477-480).
\* the platforms process.platform names here
Platforms == {"darwin", "linux", "win32"}

\* the permission step: a config file that loads or a prompt that is confirmed, a
\* config file that does not load, a prompt that is cancelled
PermissionOutcomes == {"ok", "bad", "cancelled"}

\* controller.ts:44-46, README.md:243-246 - SandboxManager.isSupportedPlatform():
\* sandbox-exec on macOS and bubblewrap on Linux, nothing on Windows
IsSupported(platform) == platform \in {"darwin", "linux"}

\* index.ts:275-345 - startInteractiveMode's sandbox set-up.  Without --sandbox the
\* terminal starts unsandboxed.  With it: an unsupported platform and missing Linux
\* dependencies end the process with 1 before anything is shown; then the
\* permissions are taken (a bad config file ends with 1, a cancelled prompt with 0)
\* and the sandbox is initialized (a failure ends with 1).
SandboxSetup(sandbox, platform, depsOk, perms, initOk) ==
  /\ startup.pc = "sandbox"
  /\ startup' =
       LET asked == [startup EXCEPT !.want = sandbox, !.platform = platform]
           run == [asked EXCEPT !.pc = "running", !.roles = {"owner"}]
           refuse(msg, code) == [asked EXCEPT !.pc = "exited", !.message = msg,
                                              !.exit = code]
       IN  IF ~sandbox THEN run
           ELSE IF ~IsSupported(platform)
             THEN refuse("unsupported", 1)
           ELSE IF platform = "linux" /\ ~depsOk THEN refuse("dependencies", 1)
           ELSE IF perms = "bad" THEN refuse("config", 1)
           ELSE IF perms = "cancelled" THEN refuse("cancelled", 0)
           ELSE IF ~initOk THEN refuse("initialize", 1)
           ELSE [run EXCEPT !.sandboxed = TRUE]
  /\ last' = ""
  /\ UNCHANGED <<managerVars, createVars, sessionVars, callerVars, sandboxVars, daVars,
                 outputVars, recVars, procVars, resizes, clockVars, metaVars,
                 clientVars, toolVars>>

ConnectSettle(outcome) ==
  /\ startup.pc = "connecting"
  /\ startup' =
       IF outcome = "connected"
         THEN [startup EXCEPT !.pc = "running", !.roles = @ \cup {"client"},
                              !.cause = outcome]
       ELSE IF startup.mode = "mcp" /\ FallsBack
         THEN [startup EXCEPT !.pc = "running", !.roles = @ \cup {"server"},
                              !.cause = outcome]
       ELSE [startup EXCEPT !.pc = "exited", !.cause = outcome,
                            !.message = ConnectError(outcome), !.exit = 1]
  /\ last' = ""
  /\ UNCHANGED <<managerVars, createVars, sessionVars, callerVars, sandboxVars, daVars,
                 outputVars, recVars, procVars, resizes, clockVars, metaVars,
                 clientVars, toolVars>>

\* only the inactivity timer ever comes due
TimerDueInactOnly(r, which) ==
  which = "inact" /\ recorders[r].inactTimer /\ now >= recorders[r].inactAt

\* the timer of recorder r is armed and due
TimerDue(r, which) ==
  IF which = "max" THEN recorders[r].maxTimer /\ now >= recorders[r].maxAt
                   ELSE recorders[r].inactTimer /\ now >= recorders[r].inactAt

\* an auto-stop timer of recorder r fires (which: "max" or "inact"): finalize.  The
\* exit code the timer hands to finalize is not fixed by the specification.
TimerFire(r, which, code) ==
  /\ proc # "exited"
  /\ microtasks = <<>>
  /\ TimerDue(r, which)
  /\ recorders' = StopRecording(recorders, r, code)
  /\ last' = "timer"
  /\ UNCHANGED <<managerVars, createVars, sessionVars, callerVars, sandboxVars, daVars,
                 outputVars, nextRec, procVars, resizes, clockVars,
                 metaVars, clientVars, toolVars, startVars>>

\* a second passes; a timer that is due runs before the clock moves on
Tick ==
  /\ proc # "exited"
  /\ microtasks = <<>>
  /\ now < MaxTime
  /\ \A r \in RecIds, which \in {"max", "inact"} : ~TimerDue(r, which)
  /\ now' = now + 1
  /\ last' = ""
  /\ UNCHANGED <<managerVars, createVars, sessionVars, callerVars, sandboxVars, daVars,
                 outputVars, recVars, procVars, resizes, metaVars, clientVars, toolVars, startVars>>

\* ------------------------------------------------------------ the system

Next ==
  \/ \E c \in Callers, k \in {"get", "init", "main"} : Call(c, k)
  \/ \E k \in SessionIds, ok \in BOOLEAN : CreateSettle(k, ok)
  \/ RunMicrotask
  \/ \E c \in Callers : Ack(c)
  \/ Dispose
  \/ DisposeAsyncCall
  \/ ResetDone
  \/ DisposeAsyncDone
  \/ \E s \in SessionIds : PtyData(s)
  \/ \E s \in SessionIds, code \in ExitCodes : PtyExit(s, code)
  \/ ExitCleanup
  \/ \E op \in Ops, c \in ColsChoices : ManagerOp(op, c)
  \/ \E s \in SessionIds, op \in Ops, c \in ColsChoices : SessionOp(s, op, c)
  \/ \E mode \in RecordingModes : StartRecordingTool(mode)
  \/ \E r \in RecIds, code \in ExitCodes : StopRecordingTool(r, code)
  \/ \E code \in ExitCodes : FinalizeRecordings(code)
  \/ \E r \in RecIds, which \in {"max", "inact"}, code \in ExitCodes : TimerFire(r, which, code)
  \/ Tick
  \/ SendRequest
  \/ \E k \in RequestIds, ok \in BOOLEAN : WriteDone(k, ok)
  \/ \E line \in Lines : SocketData(line)
  \/ \E ev \in SocketEvents : SocketGone(ev)
  \/ \E name \in ToolNames, ends \in HandlerEnds : CallTool(name, ends)
  \/ \E useMcp, isTTY, nested, exists \in BOOLEAN : Main(useMcp, isTTY, nested, exists)
  \/ \E outcome \in ConnectOutcomes : ConnectSettle(outcome)
  \/ SigTerm
  \/ TermResetDone
  \/ TermExit
  \/ \E sandbox, depsOk, initOk \in BOOLEAN, platform \in Platforms,
        perms \in PermissionOutcomes :
          SandboxSetup(sandbox, platform, depsOk, perms, initOk)
  \/ \E b \in Bytes : PeerWrites(b)
  \/ \E n \in 1..MaxStream : SocketChunk(n)

Spec == Init /\ [][Next]_vars

\* The specifications below take the steps that read or write what their claims
\* are about; the steps one leaves out write none of the variables its steps read,
\* except where a comment says what is fixed instead.

InitPlain == Init /\ record = "unset" /\ ~hasController

\* The session's life: calls for a session, the construction, disposal, child exit.
NextLife ==
  \/ \E c \in Callers, k \in {"get", "init"} : Call(c, k)
  \/ \E k \in SessionIds, ok \in BOOLEAN : CreateSettle(k, ok)
  \/ RunMicrotask
  \/ \E c \in Callers : Ack(c)
  \/ Dispose
  \/ \E s \in SessionIds, code \in ExitCodes : PtyExit(s, code)

SpecLife == InitPlain /\ [][NextLife]_vars

\* the session's life with every caller asking through getSessionAsync
NextCreate ==
  \/ \E c \in Callers : Call(c, "get")
  \/ \E k \in SessionIds, ok \in BOOLEAN : CreateSettle(k, ok)
  \/ RunMicrotask
  \/ \E c \in Callers : Ack(c)
  \/ Dispose
  \/ \E s \in SessionIds, code \in ExitCodes : PtyExit(s, code)

SpecCreate == InitPlain /\ [][NextCreate]_vars

\* The command surface on top of the session's life.

\* The command surface on top of the session's life, with one task asking for sessions.
NextOps ==
  \/ Call(1, "get")
  \/ \E k \in SessionIds, ok \in BOOLEAN : CreateSettle(k, ok)
  \/ RunMicrotask
  \/ Ack(1)
  \/ Dispose
  \/ \E s \in SessionIds, code \in ExitCodes : PtyExit(s, code)
  \/ \E op \in Ops, c \in ColsChoices : ManagerOp(op, c)

SpecOps == InitPlain /\ [][NextOps]_vars

\* Disposal, with and without a sandbox controller, with one task asking for sessions.
NextDispose ==
  \/ Call(1, "get")
  \/ \E k \in SessionIds, ok \in BOOLEAN : CreateSettle(k, ok)
  \/ RunMicrotask
  \/ Ack(1)
  \/ Dispose
  \/ DisposeAsyncCall
  \/ ResetDone
  \/ DisposeAsyncDone
  \/ \E s \in SessionIds, code \in ExitCodes : PtyExit(s, code)

\* a manager without --record option, with or without a sandbox controller
InitDispose == Init /\ record = "unset"

SpecDispose == InitDispose /\ [][NextDispose]_vars

\* Recording hooks: one task asks for the session through getSessionAsync, as a tool
\* request does, every task may call initSession, under every --record option; the
\* children emit output and end.
NextHook ==
  \/ Call(1, "get")
  \/ \E c \in Callers : Call(c, "init")
  \/ \E k \in SessionIds, ok \in BOOLEAN : CreateSettle(k, ok)
  \/ RunMicrotask
  \/ \E c \in Callers : Ack(c)
  \/ \E s \in SessionIds : PtyData(s)
  \/ \E s \in SessionIds, code \in ExitCodes : PtyExit(s, code)

\* a manager under every --record option, without sandbox
InitRecording == Init /\ ~hasController

SpecHook == InitRecording /\ [][NextHook]_vars

\* Event delivery: interactive mode starts the session, the shell emits output and is
\* resized, recordings are started and stopped on request.
NextEvents ==
  \/ Call(1, "main")
  \/ \E k \in SessionIds, ok \in BOOLEAN : CreateSettle(k, ok)
  \/ RunMicrotask
  \/ Ack(1)
  \/ \E s \in SessionIds : PtyData(s)
  \/ \E c \in ColsChoices : ManagerOp("resize", c)
  \/ \E mode \in {"always", "off"} : StartRecordingTool(mode)
  \/ \E r \in RecIds : StopRecordingTool(r, 0)

SpecEvents == InitPlain /\ [][NextEvents]_vars

\* Persistence: interactive mode starts the session under every --record option, the
\* shell emits output and ends with either code, recordings are started in every mode
\* and stopped on request and finalized by the exit handler.
NextRecorder ==
  \/ Call(1, "main")
  \/ \E k \in SessionIds, ok \in BOOLEAN : CreateSettle(k, ok)
  \/ RunMicrotask
  \/ Ack(1)
  \/ \E s \in SessionIds : PtyData(s)
  \/ \E s \in SessionIds, code \in ExitCodes : PtyExit(s, code)
  \/ ExitCleanup
  \/ \E mode \in RecordingModes : StartRecordingTool(mode)
  \/ \E r \in RecIds, code \in ExitCodes : StopRecordingTool(r, code)

SpecRecorder == InitRecording /\ [][NextRecorder]_vars

\* Timing: interactive mode starts the session, time passes, the shell emits output,
\* recordings are started and stopped on request and finalized by their timers.
NextTimers ==
  \/ Call(1, "main")
  \/ \E k \in SessionIds, ok \in BOOLEAN : CreateSettle(k, ok)
  \/ RunMicrotask
  \/ Ack(1)
  \/ \E s \in SessionIds : PtyData(s)
  \/ StartRecordingTool("always")
  \/ \E r \in RecIds : StopRecordingTool(r, 0)
  \/ \E r \in RecIds, which \in {"max", "inact"} : TimerFire(r, which, 0)
  \/ Tick

SpecTimers == InitPlain /\ [][NextTimers]_vars

\* a timer that is due does fire: the event loop runs it
TimerExpires == \E r \in RecIds, which \in {"max", "inact"} : TimerFire(r, which, 0)

\* Deadlines: as NextTimers, with no stop request: a recording ends by a timer only
NextDeadline ==
  \/ Call(1, "main")
  \/ \E k \in SessionIds, ok \in BOOLEAN : CreateSettle(k, ok)
  \/ RunMicrotask
  \/ Ack(1)
  \/ \E s \in SessionIds : PtyData(s)
  \/ StartRecordingTool("always")
  \/ \E r \in RecIds, which \in {"max", "inact"} : TimerFire(r, which, 0)
  \/ Tick

\* the event loop drains the microtask queue and runs the timers that are due
SpecTimersFair ==
  InitPlain /\ [][NextDeadline]_vars /\ WF_vars(RunMicrotask) /\ WF_vars(TimerExpires)

\* Finalization: interactive mode starts the session, the shell emits output and
\* ends, recordings are started and stopped on request, and finalizeRecordings is
\* called by the exit handler and by any other holder of the manager.
NextFinalize ==
  \/ Call(1, "main")
  \/ \E k \in SessionIds, ok \in BOOLEAN : CreateSettle(k, ok)
  \/ RunMicrotask
  \/ Ack(1)
  \/ \E s \in SessionIds : PtyData(s)
  \/ \E s \in SessionIds, code \in ExitCodes : PtyExit(s, code)
  \/ ExitCleanup
  \/ \E mode \in {"always", "on-failure"} : StartRecordingTool(mode)
  \/ \E r \in RecIds : StopRecordingTool(r, 0)
  \/ \E code \in ExitCodes : FinalizeRecordings(code)

SpecFinalize == InitPlain /\ [][NextFinalize]_vars

\* The proxy client: requests are sent, their writes complete or fail, and response
\* lines arrive from the peer with any id, in any order, any number of times.
NextProxy ==
  \/ SendRequest
  \/ \E k \in RequestIds, ok \in BOOLEAN : WriteDone(k, ok)
  \/ \E line \in Lines : SocketData(line)
  \/ \E ev \in SocketEvents : SocketGone(ev)

SpecProxy == InitPlain /\ [][NextProxy]_vars

\* the proxy client's socket at the level of bytes and chunks
NextChunk ==
  \/ SendRequest
  \/ \E b \in Bytes : PeerWrites(b)
  \/ \E n \in 1..MaxStream : SocketChunk(n)

SpecChunk == InitPlain /\ [][NextChunk]_vars

\* The tool server: CallTool requests of any name come one after another.
NextTools == \E name \in ToolNames, ends \in HandlerEnds : CallTool(name, ends)

SpecTools == InitPlain /\ [][NextTools]_vars

\* Process start: main() picks the mode, the connection attempt ends one way or
\* another; a process that has become a client sends requests and gets lines, one
\* that has become a server handles CallTool requests.
NextStart ==
  \/ \E useMcp, isTTY, nested, exists \in BOOLEAN : Main(useMcp, isTTY, nested, exists)
  \/ \E sandbox, depsOk, initOk \in BOOLEAN, platform \in Platforms,
        perms \in PermissionOutcomes :
          SandboxSetup(sandbox, platform, depsOk, perms, initOk)
  \/ \E outcome \in ConnectOutcomes : ConnectSettle(outcome)
  \/ "client" \in startup.roles /\ SendRequest
  \/ "client" \in startup.roles /\ \E line \in Lines : SocketData(line)
  \/ "client" \in startup.roles /\ \E ev \in SocketEvents : SocketGone(ev)
  \/ "server" \in startup.roles
       /\ \E name \in ToolNames, ends \in HandlerEnds : CallTool(name, ends)

SpecStart == InitPlain /\ [][NextStart]_vars

\* Session operations: a session is created, its holders and the manager call its
\* methods (resizing to 80 columns), the manager is disposed, the shell ends.
NextSession ==
  \/ Call(1, "get")
  \/ \E k \in SessionIds, ok \in BOOLEAN : CreateSettle(k, ok)
  \/ RunMicrotask
  \/ Ack(1)
  \/ Dispose
  \/ \E s \in SessionIds, code \in ExitCodes : PtyExit(s, code)
  \/ \E op \in Ops : ManagerOp(op, 80)
  \/ \E s \in SessionIds, op \in Ops : SessionOp(s, op, 80)

SpecSession == InitPlain /\ [][NextSession]_vars

\* the interactive process around the session's exit: the exit handler, the SIGTERM
\* handler and the recordings that are running when either acts
NextExit ==
  \/ Call(1, "main")
  \/ \E k \in SessionIds, ok \in BOOLEAN : CreateSettle(k, ok)
  \/ RunMicrotask
  \/ Ack(1)
  \/ \E s \in SessionIds : PtyData(s)
  \/ \E s \in SessionIds, code \in ExitCodes : PtyExit(s, code)
  \/ ExitCleanup
  \/ SigTerm
  \/ TermResetDone
  \/ TermExit
  \/ \E mode \in {"always", "on-failure"} : StartRecordingTool(mode)
  \/ \E r \in RecIds : StopRecordingTool(r, 0)

SpecExit == InitDispose /\ [][NextExit]_vars

\* ================================================================ claims

\* ---- C1 ----
\* However the calls of getSessionAsync/initSession interleave: at most one
\* construction is in flight, at most one caller is the one that started it, every
\* caller that called while a construction was in flight awaits that construction,
\* and callers that await the same construction are given the same outcome, which is
\* the session it produced.
C1_OneConstruction ==
  /\ Cardinality({k \in SessionIds : promiseState[k] = "pending"}) <= 1
  /\ Cardinality({c \in Callers : pc[c] = "inner"}) <= 1
  /\ \A c \in Callers :
       pc[c] \in {"inner", "joined"} /\ promiseState[joined[c]] = "pending"
         => joined[c] = sessionPromise
  /\ \A c1, c2 \in Callers :
       /\ pc[c1] \in {"outer", "done"} /\ pc[c2] \in {"outer", "done"}
       /\ joined[c1] # 0 /\ joined[c1] = joined[c2]
       => val[c1] = val[c2] /\ val[c1] \in {joined[c1], Rejected}

\* two callers were handed the one session of the one construction they both awaited
C1_Witness ==
  \E c1, c2 \in Callers :
    /\ c1 # c2
    /\ pc[c1] = "done" /\ pc[c2] = "done"
    /\ joined[c1] = 1 /\ joined[c2] = 1
    /\ result[c1] = 1 /\ result[c2] = 1
    /\ nextId = 1

\* ---- C2 ----
\* In every reachable state at most one session of the manager is live (spawned and
\* not disposed).
C2_AtMostOneLive == Cardinality({s \in Spawned : ~disposed[s]}) <= 1

\* a second session is live after the first one was disposed
C2_Witness == 2 \in Spawned /\ ~disposed[2] /\ 1 \in Spawned /\ disposed[1]

\* ---- C3 ----
\* A disposed session stays disposed, and a caller that asked for a session when a
\* session was already disposed is never handed that session.
C3_DisposedForGood ==
  [][ /\ \A s \in SessionIds : disposed[s] => disposed'[s]
      /\ \A c \in Callers :
           pc'[c] = "done" /\ result'[c] # Rejected => result'[c] \notin callDisposed'[c]
    ]_vars

\* a caller that asked after session 1 was disposed was handed the fresh session 2
C3_Witness ==
  \E c \in Callers : pc[c] = "done" /\ result[c] = 2 /\ 1 \in callDisposed[c]

\* ---- C4 ----
\* A command (write, resize, getContent, getVisibleContent, takeScreenshot, clear,
\* getDimensions) called while the manager holds no session throws NotInitialized and
\* leaves every other part of the state as it was: no construction is started.
C4_NotInitialized ==
  [][ (session = 0 /\ \E op \in Ops, c \in ColsChoices : ManagerOp(op, c))
        => /\ last' = "NotInitialized"
           /\ UNCHANGED <<managerVars, createVars, sessionVars, callerVars, sandboxVars,
                          daVars, outputVars, recVars, procVars, resizes, clockVars,
                 metaVars, clientVars, toolVars, startVars>>
    ]_vars

\* a command failed on a manager that never had a session
C4_Witness == last = "NotInitialized" /\ session = 0 /\ nextId = 0

C6_DisposeAsyncReleases ==
  [][ daReady' < daReady => ~HasActiveSession' /\ ~initialized' ]_vars

\* ---------------------------------------------------------------- C7
\* C7 - every output event a Session emits from its start on reaches the
\* RecordingManager: no event is emitted by a live Session that has no recording
\* listener subscribed.  (lost counts the events emitted by a Session that is not
\* disposed and has no recording listener.)
C7_NoEventLost == lost = 0

\* ---------------------------------------------------------------- C8
AutoRecordings == {r \in RecIds : recorders[r].by = "auto"}

\* C8 - the manager starts at most one auto-Recording however many times initSession
\* is called; under 'always' and 'on-failure' it is started, in the mode asked for, in
\* the step that subscribes the recording listeners, and it is the one
\* autoRecordingId names; under 'off' and with no option the manager starts none.
C8_OneAutoRecording ==
  /\ Cardinality(AutoRecordings) <= 1
  /\ ~AutoRecordRequested => AutoRecordings = {} /\ autoRecordingId = 0
  /\ AutoRecordRequested =>
       /\ (\E s \in SessionIds : RecHooks(s) > 0) <=> AutoRecordings # {}
       /\ AutoRecordings # {} => AutoRecordings = {autoRecordingId}
       /\ \A r \in AutoRecordings :
            recorders[r].state # "idle" /\ recorders[r].mode = record

\* initSession has completed twice on one Session and there is one auto-Recording
C8_Witness ==
  /\ AutoRecordRequested
  /\ \E s \in SessionIds : RecHooks(s) >= 2
  /\ initCalls = MaxInitCalls
  /\ Cardinality(AutoRecordings) = 1

\* ---------------------------------------------------------------- C9
\* C9 - a recorder that is idle or finalized is left as it is by every step, the
\* delivery of output and resize events included: its log, state and timers do not
\* change, and a finalized recorder has no timer armed.
C9_OnlyWhileRecording ==
  [][\A r \in RecIds :
       /\ recorders[r].state \in {"idle", "finalized"} => recorders'[r] = recorders[r]
       /\ recorders'[r].state = "finalized" =>
            ~recorders'[r].maxTimer /\ ~recorders'[r].inactTimer]_vars

\* two recorders logged the first output event, one was then finalized, and the
\* second output event and a resize were delivered and logged by the other alone
C9_Witness ==
  \E r1, r2 \in RecIds :
    /\ recorders[r1].state = "finalized"
    /\ recorders[r1].events = << <<"o", 1>> >>
    /\ Len(recorders[r2].events) = 3
    /\ recorders[r2].events[1] = <<"o", 1>>
    /\ \E i, j \in 2..3 : recorders[r2].events[i] = <<"o", 2>>
                          /\ recorders[r2].events[j][1] = "r"

\* ---------------------------------------------------------------- C10
Persisted(rec) == rec.file = "final" /\ rec.path

Discarded(rec) == rec.file = "none" /\ ~rec.path

\* C10 - a recorder finalized under 'on-failure' is persisted if and only if the exit
\* code it was given is non-zero and with code 0 leaves no file and exposes no path; a
\* recorder finalized under 'always' is persisted whatever the code; and the code the
\* interactive exit handler gives to every recording it finalizes is the shell's.
C10_PersistOnFailure ==
  [][/\ \A r \in RecIds :
          recorders'[r].state = "finalized" =>
            /\ recorders'[r].mode = "on-failure" =>
                 IF recorders'[r].code = 0
                   THEN Discarded(recorders'[r])
                   ELSE Persisted(recorders'[r])
            /\ recorders'[r].mode = "always" => Persisted(recorders'[r])
     /\ proc = "running" /\ proc' = "finalizing" =>
          \A r \in RecIds :
            recorders[r].state = "recording" =>
              /\ recorders'[r].state = "finalized"
              /\ recorders'[r].code = procCode']_vars

\* the shell has ended with code 1 and the exit handler persisted an 'on-failure'
\* recording, after another had been stopped with code 0 and discarded
C10_Witness ==
  /\ proc = "finalizing"
  /\ procCode = 1
  /\ \E r1, r2 \in RecIds :
       /\ recorders[r1].mode = "on-failure" /\ recorders[r1].state = "finalized"
       /\ recorders[r1].code = 0 /\ Discarded(recorders[r1])
       /\ recorders[r2].mode = "on-failure" /\ recorders[r2].state = "finalized"
       /\ recorders[r2].code = 1 /\ Persisted(recorders[r2])

\* ---------------------------------------------------------------- C11
\* C11 - in every recorder's log, two consecutive events whose real gap exceeds
\* idleTimeLimit are stored idleTimeLimit apart, exactly, and two whose real gap does
\* not exceed it are stored with their real gap.
C11_IdleGapClamped ==
  \A r \in RecIds :
    \A i \in 2..Len(recorders[r].stamps) :
      LET real == recorders[r].reals[i] - recorders[r].reals[i - 1]
          stored == recorders[r].stamps[i] - recorders[r].stamps[i - 1]
      IN  stored = IF real > IdleTimeLimit THEN IdleTimeLimit ELSE real

\* two events one second more than idleTimeLimit apart are stored idleTimeLimit apart
C11_Witness ==
  \E r \in RecIds :
    /\ Len(recorders[r].stamps) = 2
    /\ recorders[r].reals[2] - recorders[r].reals[1] = IdleTimeLimit + 1
    /\ recorders[r].stamps[2] - recorders[r].stamps[1] = IdleTimeLimit

\* ---------------------------------------------------------------- C12
\* C12 - a recorder whose inactivity timer has come due is finalized unless the timer
\* is reset, with no stop call needed; while it records, the timer is due
\* inactivityTimeout seconds after the start or the last logged event, and every
\* output event it logs moves that to inactivityTimeout seconds after the event.
C12_InactivityFinalizes ==
  /\ \A r \in RecIds :
       (recorders[r].state = "recording" /\ now >= recorders[r].inactAt)
         ~> (recorders[r].state = "finalized" \/ now < recorders[r].inactAt)
  /\ [][\A r \in RecIds :
          /\ recorders'[r].state = "recording" =>
               /\ recorders'[r].inactTimer
               /\ recorders'[r].inactAt = recorders'[r].lastAt + InactivityTimeout
          /\ emitted' > emitted /\ Len(recorders'[r].events) > Len(recorders[r].events) =>
               recorders'[r].inactAt = now + InactivityTimeout]_vars

\* a recorder that logged nothing was finalized by its inactivity timer,
\* inactivityTimeout seconds after its start
C12_Witness ==
  /\ last = "timer"
  /\ \E r \in RecIds :
       /\ recorders[r].state = "finalized"
       /\ recorders[r].events = <<>>
       /\ now = recorders[r].inactAt
       /\ now < recorders[r].maxAt

\* ---------------------------------------------------------------- C13
\* C13 - a recorder still recording when its max-duration timer has come due is
\* finalized, with no stop call needed; the timer stays armed and due maxDuration
\* seconds after the start whatever the recorder logs.
C13_MaxDurationFinalizes ==
  /\ \A r \in RecIds :
       (recorders[r].state = "recording" /\ now >= recorders[r].maxAt)
         ~> (recorders[r].state = "finalized")
  /\ [][\A r \in RecIds :
          /\ recorders[r].state = "idle" /\ recorders'[r].state = "recording" =>
               recorders'[r].maxAt = now + MaxDuration
          /\ recorders[r].state = "none" /\ recorders'[r].state = "recording" =>
               recorders'[r].maxAt = now + MaxDuration
          /\ recorders'[r].state = "recording" => recorders'[r].maxTimer
          /\ recorders[r].state = "recording" => recorders'[r].maxAt = recorders[r].maxAt
     ]_vars

\* a recorder was finalized by its max-duration timer in the second it logged output
C13_Witness ==
  /\ last = "timer"
  /\ \E r \in RecIds :
       /\ recorders[r].state = "finalized"
       /\ now = recorders[r].maxAt
       /\ now < recorders[r].inactAt
       /\ recorders[r].lastAt = now

\* ---------------------------------------------------------------- C14
\* C14 - a finalized recorder has neither timer armed, so none can fire against it,
\* and no step changes it again: it is not finalized a second time and its artifact
\* is written at most once.
C14_TimersCancelled ==
  [][\A r \in RecIds :
       /\ recorders'[r].state = "finalized" =>
            /\ ~recorders'[r].maxTimer /\ ~recorders'[r].inactTimer
            /\ \A which \in {"max", "inact"} : ~TimerDue(r, which)'
       /\ recorders[r].state = "finalized" =>
            /\ recorders'[r].state = "finalized"
            /\ recorders'[r].code = recorders[r].code
            /\ recorders'[r].file = recorders[r].file
            /\ recorders'[r].writes = recorders[r].writes
       /\ recorders'[r].writes <= 1]_vars

\* a recorder was finalized and persisted no later than its inactivity timer was due,
\* and the later time its max-duration timer was due has come
C14_Witness ==
  \E r \in RecIds :
    /\ recorders[r].state = "finalized"
    /\ recorders[r].inactAt < recorders[r].maxAt
    /\ now >= recorders[r].maxAt
    /\ recorders[r].writes = 1

\* a step in which finalizeAll runs: a finalizeRecordings call, or the exit handler
\* of the interactive process
FinalizeAllStep ==
  \/ last' \in {"finalizeAll", "finalizeAllAgain"}
  \/ proc = "running" /\ proc' = "finalizing"

\* the recorders that are recording
Recording == {r \in RecIds : recorders[r].state = "recording"}

\* C15: finalizeAll(exitCode) finalizes every recorder that is still recording, each
\* with that exit code, leaves the other recorders as they are, and returns exactly
\* one metadata entry for each recorder it finalized
C15_FinalizeAllComplete ==
  [][FinalizeAllStep =>
       /\ \A r \in Recording :
            /\ recorders'[r].state = "finalized"
            /\ recorders'[r].code = returned'.code
            /\ Cardinality({i \in 1..Len(returned'.list) : returned'.list[i].id = r}) = 1
            /\ \E i \in 1..Len(returned'.list) :
                 returned'.list[i] = Metadata(r, recorders'[r])
       /\ \A r \in RecIds \ Recording : recorders'[r] = recorders[r]
       /\ Len(returned'.list) = Cardinality(Recording)]_vars

\* finalizeRecordings(1) has finalized two recording recorders of different modes and
\* returned an entry for each
C15_Witness ==
  /\ last = "finalizeAll"
  /\ returned.code = 1
  /\ Len(returned.list) = 2
  /\ \A r \in {1, 2} : recorders[r].state = "finalized" /\ recorders[r].code = 1
  /\ recorders[1].mode # recorders[2].mode

\* C16: finalizeAll is idempotent: a later call, with the same or another exit code,
\* leaves every recorder an earlier call finalized as it was (state, exit code,
\* artifact, number of writes), and when nothing is recording it changes no recorder
\* and returns an empty list
C16_FinalizeAllIdempotent ==
  [][FinalizeAllStep /\ returned.code # NoCode =>
       /\ \A r \in RecIds :
            recorders[r].state = "finalized" =>
              /\ recorders'[r].state = "finalized"
              /\ recorders'[r].code = recorders[r].code
              /\ recorders'[r].file = recorders[r].file
              /\ recorders'[r].path = recorders[r].path
              /\ recorders'[r].writes = recorders[r].writes
       /\ Recording = {} => recorders' = recorders /\ returned'.list = <<>>]_vars

\* finalizeRecordings was called again with exit code 0 after an earlier call with
\* exit code 1 persisted an on-failure recording: the artifact is still there, written
\* once
C16_Witness ==
  /\ last = "finalizeAllAgain"
  /\ returned.code = 0
  /\ returned.list = <<>>
  /\ \E r \in RecIds :
       /\ recorders[r].mode = "on-failure"
       /\ recorders[r].state = "finalized"
       /\ recorders[r].code = 1
       /\ Persisted(recorders[r])
       /\ recorders[r].writes = 1

\* C17: recordings are independent: a recording started while others are active gets
\* an id none of them has and leaves them as they are, and a stop request or an
\* auto-stop timer changes the recorder it is about and no other (state, event log,
\* timers and all)
C17_RecordingsIndependent ==
  [][/\ nextRec' # nextRec =>
          /\ nextRec' \notin 1..nextRec
          /\ recorders[nextRec'].state = "none"
          /\ recorders'[nextRec'].state = "recording"
          /\ \A r \in RecIds \ {nextRec'} : recorders'[r] = recorders[r]
     /\ last' \in {"ok", "timer"} =>
          \E r \in Recording :
            /\ recorders'[r].state = "finalized"
            /\ \A q \in RecIds \ {r} : recorders'[q] = recorders[q]]_vars

\* recorder 1 was stopped while recorder 2, started while recorder 1 was recording
\* (they share an event), goes on recording with its events and both timers armed
C17_Witness ==
  /\ last = "ok"
  /\ recorders[1].state = "finalized"
  /\ recorders[2].state = "recording"
  /\ recorders[2].maxTimer /\ recorders[2].inactTimer
  /\ \E i \in 1..Len(recorders[1].events), j \in 1..Len(recorders[2].events) :
       recorders[1].events[i] = recorders[2].events[j]

\* the output events of a log, in the order they were appended
RECURSIVE OutputsOf(_)
OutputsOf(events) ==
  IF events = <<>> THEN <<>>
  ELSE (IF Head(events)[1] = "o" THEN << Head(events)[2] >> ELSE <<>>)
       \o OutputsOf(Tail(events))

\* no two entries of a sequence of event numbers are swapped
InEmissionOrder(seq) == \A i, j \in 1..Len(seq) : i < j => seq[i] <= seq[j]

\* what the stdout passthrough wrote and what each recorder logged is in the order
\* of emission
LogsInOrder ==
  /\ InEmissionOrder(stdoutLog)
  /\ \A r \in RecIds : InEmissionOrder(OutputsOf(recorders[r].events))

\* a session that is not disposed emits an output event
EmitsLive ==
  /\ emitted' = emitted + 1
  /\ \A s \in Spawned : ~exited[s] => ~disposed[s]

\* C18: every subscriber (the stdout passthrough, each recording recorder) sees the
\* output events in the order the session emitted them, and every recorder that is
\* recording when the session emits an event receives it
C18_OrderedDelivery ==
  /\ []LogsInOrder
  /\ [][EmitsLive =>
          \A r \in Recording :
            /\ recorders'[r].events # <<>>
            /\ recorders'[r].events[Len(recorders'[r].events)] = <<"o", emitted'>>]_vars

\* C19: a request id is answered at most once: a settled future never changes, the
\* id of a settled future is no longer pending, and a response line whose id is not
\* pending (a second response for the id, or one that comes after the write for it
\* failed) settles nothing and changes no pending request
C19_AnsweredAtMostOnce ==
  /\ [](\A k \in RequestIds : Settled(future[k]) => k \notin pendingRequests)
  /\ [][/\ \A k \in RequestIds : Settled(future[k]) => future'[k] = future[k]
        /\ \A id \in RequestIds :
             /\ Len(responses') = Len(responses) + 1
             /\ responses'[Len(responses')].id = id
             /\ id \notin pendingRequests
             => pendingRequests' = pendingRequests /\ future' = future]_vars

\* request 1 was resolved by the first response line; a second line carrying id 1
\* with an error came afterwards, and a line carrying id 2 after the write of
\* request 2 had failed: both futures are as they were settled
C19_Witness ==
  /\ Len(responses) = 3
  /\ responses[1] = [id |-> 1, error |-> FALSE]
  /\ responses[2] = [id |-> 1, error |-> TRUE]
  /\ responses[3].id = 2
  /\ future[1] = [state |-> "resolved", by |-> 1]
  /\ future[2] = [state |-> "rejected", by |-> 0]
  /\ pendingRequests = {}

\* C20: whatever requests are pending and in whatever order the response lines
\* arrive, a future settled by a response line was settled by a line that carries
\* its own id, with that line's result or error; ids are assigned by the client,
\* each greater than every id before it and none used twice
C20_CorrelatedById ==
  /\ [](\A k \in RequestIds :
          future[k].by # 0 =>
            /\ future[k].by \in 1..Len(responses)
            /\ responses[future[k].by].id = k
            /\ (future[k].state = "rejected") = responses[future[k].by].error
            /\ (future[k].state = "resolved") = ~responses[future[k].by].error)
  /\ [][requestId' # requestId =>
          /\ requestId' > requestId
          /\ future[requestId'] = NoFuture
          /\ future'[requestId'] = PendingFuture
          /\ pendingRequests' = pendingRequests \cup {requestId'}
          /\ \A k \in 1..requestId : future'[k] = future[k]]_vars

\* requests 1 and 2 were both pending; the line for request 2 (an error) arrived
\* first and the line for request 1 (a result) second: each settled its own future
C20_Witness ==
  /\ Len(responses) >= 2
  /\ responses[1] = [id |-> 2, error |-> TRUE]
  /\ responses[2] = [id |-> 1, error |-> FALSE]
  /\ future[2] = [state |-> "rejected", by |-> 1]
  /\ future[1] = [state |-> "resolved", by |-> 2]

\* C21: when the socket write of request k fails, its entry leaves the pending map
\* and its future, unless a response line had settled it already, is rejected with
\* the write error in that step; from then on no response line changes it; the
\* futures and pending entries of the other requests are as they were
C21_WriteFailureRejects ==
  /\ [](\A k \in RequestIds :
          writeCb[k] = "failed" => k \notin pendingRequests /\ Settled(future[k]))
  /\ [][\A k \in RequestIds :
          /\ writeCb[k] = "queued" /\ writeCb'[k] = "failed" =>
               /\ future[k].state = "pending" =>
                    future'[k] = [state |-> "rejected", by |-> 0]
               /\ pendingRequests' = pendingRequests \ {k}
               /\ \A q \in RequestIds \ {k} : future'[q] = future[q]
          /\ writeCb[k] = "failed" => future'[k] = future[k]]_vars

\* the write of request 1 failed and rejected its future; a response line carrying
\* id 1 came afterwards and settled nothing; request 2 is still pending
C21_Witness ==
  /\ writeCb[1] = "failed"
  /\ future[1] = [state |-> "rejected", by |-> 0]
  /\ \E n \in 1..Len(responses) : responses[n].id = 1
  /\ future[2] = PendingFuture
  /\ pendingRequests = {2}

\* C22: a line that does not parse is dropped silently: the step that takes it ends
\* no process, settles no future and changes no pending entry, and the lines that
\* parse are dispatched as ever, whatever came before them
C22_MalformedDropped ==
  [][Len(responses') = Len(responses) + 1 =>
       LET line == responses'[Len(responses')]
       IN  /\ clientExit' = clientExit
           /\ line = MalformedLine =>
                future' = future /\ pendingRequests' = pendingRequests
           /\ line # MalformedLine /\ line.id \in pendingRequests =>
                /\ Settled(future'[line.id])
                /\ future'[line.id].by = Len(responses')
                /\ line.id \notin pendingRequests']_vars

\* a malformed line came between two response lines: the one before it settled
\* request 1, the one after it settled request 2, and the client runs on
C22_Witness ==
  /\ Len(responses) = 3
  /\ responses[1].id = 1
  /\ responses[2] = MalformedLine
  /\ responses[3].id = 2
  /\ future[1].by = 1
  /\ future[2].by = 3
  /\ clientExit = NoCode

\* C23: a request naming an unknown method fails that request alone: its reply is an
\* error naming the unknown tool under the request's own id, the replies made before
\* stay as they were, and every request naming a known tool, before or after it, is
\* answered under its own id with what its handler made
C23_UnknownMethodFailsRequest ==
  /\ [](\A n \in 1..Len(toolReplies) :
          /\ toolReplies[n].id = n
          /\ toolReplies[n].name \notin DirectTools =>
               /\ toolReplies[n].kind = "errorResult"
               /\ toolReplies[n].text = "Unknown tool"
          /\ toolReplies[n].name \in DirectTools => toolReplies[n].text # "Unknown tool")
  /\ [][/\ Len(toolReplies') >= Len(toolReplies)
        /\ \A n \in 1..Len(toolReplies) : toolReplies'[n] = toolReplies[n]]_vars

\* a request naming no tool came between two requests for the type tool: it alone
\* was failed as unknown, the other two were answered with the tool's result
C23_Witness ==
  /\ Len(toolReplies) = 3
  /\ toolReplies[1] = [id |-> 1, name |-> "type", kind |-> "result", text |-> ""]
  /\ toolReplies[2] =
       [id |-> 2, name |-> "bogus", kind |-> "errorResult", text |-> "Unknown tool"]
  /\ toolReplies[3] = [id |-> 3, name |-> "type", kind |-> "result", text |-> ""]

\* C24: once connected, a socket error or close event ends the client process with
\* a non-zero exit code, and the client takes no step after that: it sends no
\* request, runs no callback and settles no future
C24_ConnectionLossIsFatal ==
  /\ [][last' \in SocketEvents /\ last' # last =>
          clientExit' # NoCode /\ clientExit' # 0]_vars
  /\ [][clientExit # NoCode => UNCHANGED clientVars]_vars
  /\ [](last \in SocketEvents => clientExit # NoCode /\ clientExit # 0)

\* the socket closed while request 1 was waiting for its response and request 2 for
\* its write callback: the process has exited with code 1
C24_Witness ==
  /\ last = "close"
  /\ clientExit = 1
  /\ pendingRequests = {1, 2}
  /\ writeCb[1] = "done"
  /\ writeCb[2] = "queued"

C26_ClientReportsCause ==
  /\ [](startup.mode = "client" =>
          /\ startup.pc = "exited" <=> startup.cause \notin {"", "connected"}
          /\ startup.pc = "exited" =>
               /\ startup.exit = 1
               /\ startup.roles = {}
               /\ startup.cause = "ENOENT" => startup.message = "No tmcp session found"
               /\ startup.cause = "ECONNREFUSED" => startup.message = "Connection refused"
               /\ startup.message = ConnectError(startup.cause))
  /\ ConnectError("ENOENT") # ConnectError("ECONNREFUSED")
  /\ [][startup.pc = "exited" => startup' = startup /\ requestId' = requestId]_vars

\* started without --mcp and without a terminal, the process was refused the
\* connection: it reported that and exited with code 1
C26_Witness ==
  /\ startup.mode = "client"
  /\ startup.pc = "exited"
  /\ startup.cause = "ECONNREFUSED"
  /\ startup.message = "Connection refused"
  /\ startup.exit = 1

\* C27: the proxy path and the direct tool dispatcher serve the same method names:
\* the dispatcher never answers a request that names an exposed operation, or a tool
\* the proxy client lists, as an unknown tool
C27_SameMethodsBothPaths ==
  \A n \in 1..Len(toolReplies) :
    toolReplies[n].name \in ExposedOperations \cup ClientTools =>
      toolReplies[n].text # "Unknown tool"

\* C28: when the child of a session ends, with whatever code, the session is
\* inactive from that step on and each exit listener registered then has been called
\* once, with that code (the exit handler of the interactive process holds it); no
\* caller's call is failed by the step; before the child ends and after that step
\* no exit listener is called
C28_ExitReported ==
  /\ [](\A s \in SessionIds :
          /\ ~exited[s] => exitArgs[s] = <<>>
          /\ exited[s] => ~isActive(s))
  /\ [][\A s \in SessionIds :
          /\ ~exited[s] /\ exited'[s] =>
               /\ Len(exitArgs'[s]) = exitListeners[s]
               /\ \A i \in 1..Len(exitArgs'[s]) :
                    /\ exitArgs'[s][i] \in ExitCodes
                    /\ proc' = "finalizing" => exitArgs'[s][i] = procCode'
               /\ exitListeners[s] > 0 /\ proc = "running" => proc' = "finalizing"
               /\ UNCHANGED <<pc, result, callDisposed>>
               /\ last' = ""
          /\ exited[s] => exitArgs'[s] = exitArgs[s]]_vars

\* the shell of the interactive session ended with code 1: its exit listener was
\* called once with 1 and the session is disposed
C28_Witness ==
  \E s \in SessionIds :
    /\ exited[s] /\ disposed[s]
    /\ exitListeners[s] = 1
    /\ exitArgs[s] = <<1>>
    /\ procCode = 1

\* the operations of a session that test this.disposed
GuardedOps == Ops \ {"getDimensions"}

C32_UnsupportedFallsBack ==
  (startup.mode = "interactive" /\ startup.pc # "sandbox"
     /\ startup.want /\ startup.platform = "win32") =>
    /\ startup.pc = "running"
    /\ startup.roles = {"owner"}
    /\ ~startup.sandboxed
    /\ startup.exit = NoCode

\* C33 - proxy requests have no timeout: a request whose write succeeded and that
\* is still pending stays pending and stays registered in every step the client
\* takes, whatever else is sent or arrives, except in the step that takes a response
\* line carrying that request's own id.
C33_PendingUntilAnswered ==
  [][\A k \in RequestIds :
       (k \in pendingRequests /\ future[k].state = "pending" /\ writeCb[k] = "done") =>
         \/ future'[k] = future[k] /\ k \in pendingRequests'
         \/ /\ Len(responses') = Len(responses) + 1
            /\ responses'[Len(responses')] \in ResponseLines
            /\ responses'[Len(responses')].id = k]_vars

\* the first request was written and never answered: a malformed line and the
\* answer to the second request have arrived, no more lines can come, and the first
\* request is still pending and registered on the open connection
C33_Witness ==
  /\ clientExit = NoCode
  /\ Len(responses) = MaxResponses
  /\ writeCb[1] = "done"
  /\ future[1] = PendingFuture
  /\ 1 \in pendingRequests
  /\ responses[1] = MalformedLine
  /\ future[2].state = "resolved"

\* C34 - a dispose() called while a construction is in flight is not undone by
\* that construction: when dispose() was the last thing called and the construction
\* in flight completes in the next step, the manager holds no active session after
\* that step.
C34_DisposeDuringConstruction ==
  [][(last \in {"dispose", "disposeAgain"} /\ sessionPromise # 0) =>
       ~(session' = sessionPromise /\ HasActiveSession')]_vars

\* C35 - when a construction fails, every caller that awaited it is given the
\* failure; when its creator resumes, the manager is left with no construction in
\* flight and no active session; and a call made after that starts a new
\* construction and is never handed the failed one.
C35_FailedConstruction ==
  [][\A c \in Callers :
       /\ (pc'[c] \in {"outer", "done"} /\ joined'[c] # 0
             /\ promiseState'[joined'[c]] = "rejected") =>
            /\ val'[c] = Rejected
            /\ pc'[c] = "done" => result'[c] = Rejected
       /\ (pc[c] = "inner" /\ pc'[c] = "outer"
             /\ promiseState[joined[c]] = "rejected") =>
            /\ sessionPromise' = 0
            /\ session' = session
            /\ ~HasActiveSession'
       /\ (pc[c] = "idle" /\ pc'[c] # "idle" /\ sessionPromise = 0
             /\ ~HasActiveSession) =>
            /\ joined'[c] = nextId + 1
            /\ sessionPromise' = nextId + 1
            /\ promiseState'[nextId + 1] = "pending"]_vars

\* construction 1 failed; a caller that awaited it holds the failure, and a caller
\* that called afterwards started construction 2, which is now in flight
C35_Witness ==
  \E c1, c2 \in Callers :
    /\ c1 # c2
    /\ promiseState[1] = "rejected"
    /\ pc[c1] = "done" /\ joined[c1] = 1 /\ result[c1] = Rejected
    /\ pc[c2] = "inner" /\ joined[c2] = 2
    /\ sessionPromise = 2
    /\ session = 0

\* C36 - each output event and each resize event of the session reaches the
\* RecordingManager once, however often initSession() was called: no recorder's
\* log holds the same output event twice, and no recorder's log holds more resize
\* events than resizes were made.
C36_DeliveredOnce ==
  \A r \in RecIds :
    LET events == recorders[r].events
        outs == OutputsOf(events)
    IN  /\ \A i, j \in 1..Len(outs) : i < j => outs[i] # outs[j]
        /\ Cardinality({i \in 1..Len(events) : events[i][1] = "r"}) <= resizes

\* C37 - every recording that was started is finalized before the owning process
\* terminates, on the SIGTERM path as on the others: once the process has exited
\* through its SIGTERM handler no recorder is still recording.
C37_FinalizedBeforeTermination ==
  (proc = "exited" /\ term = "done") =>
    \A r \in RecIds : recorders[r].state # "recording"

\* C38 - however disposeAsync() calls overlap and interleave with the cleanup at
\* the shell's exit, the sandbox, initialized once, is reset at most once (resets
\* under way and resets done together), and no session is killed twice.
C38_ReleasedOnce ==
  /\ daWait + resetCount <= 1
  /\ \A s \in SessionIds : killCount[s] <= 1

\* C39 - output that the child of a disposed session still emits reaches no data
\* listener: when every session whose child is still running has been disposed, a
\* step in which a child emits output leaves the stdout passthrough and every
\* recorder as they are.
C39_DisposedSessionSilent ==
  [][(emitted' # emitted
        /\ \A s \in Spawned : ~exited[s] => disposed[s]) =>
       UNCHANGED <<stdoutLog, recorders>>]_vars

\* the first output event went to the stdout passthrough and to the recorder; the
\* session was then disposed with its child still running, the child emitted a
\* second event, and neither the passthrough nor the recorder, which is still
\* recording, has it
C39_Witness ==
  /\ emitted = 2
  /\ stdoutLog = <<1>>
  /\ disposed[1]
  /\ ~exited[1]
  /\ \E r \in RecIds :
       /\ recorders[r].state = "recording"
       /\ OutputsOf(recorders[r].events) = <<1>>

\* C40 - response lines are reassembled across chunks: however the bytes delivered
\* so far were cut into chunks, the lines the handler has taken are the non-empty
\* complete lines of those bytes, each once and in stream order (the same
\* responses as if the bytes had come in one chunk), and the buffer holds the
\* piece after the last newline: empty when there is none, and with the same id
\* bytes otherwise.
C40_LinesReassembled ==
  LET whole == Split(Decode(SubSeq(rx.sent, 1, rx.got)), <<>>, <<>>)
      full == SelectSeq(whole.lines, LAMBDA l : l # <<>>)
      Ids(l) == SelectSeq(l, LAMBDA ch : ch \in {"1", "2"})
  IN  /\ responses = [i \in 1..Len(full) |-> Parse(full[i])]
      /\ Ids(rx.buffer) = Ids(whole.rest)
      /\ (rx.buffer = <<>>) <=> (whole.rest = <<>>)

\* the peer wrote the responses to the requests 1 and 2; a chunk ended inside the
\* second line: the first request is resolved by the first line, the piece of the
\* second line waits in the buffer and the second request is still pending
C40_Witness ==
  /\ rx.sent = <<"1", "N", "2", "N">>
  /\ rx.got = 3
  /\ rx.buffer = <<"2">>
  /\ responses = <<[id |-> 1, error |-> FALSE]>>
  /\ future[1].state = "resolved"
  /\ future[2] = PendingFuture

====
